---- MODULE Spec2Model ----
(***************************************************************************)
(* On-demand HLS segmentation engine of server/hls.ts: the in-flight job   *)
(* map, the slot limiter, ensureHlsSegments, runSegmentation, the manifest *)
(* poll and the external segmenter process acting on the cache directory.  *)
(*                                                                         *)
(* One step of the model is one turn of the event loop: the completion of  *)
(* an awaited operation together with the synchronous code that follows it *)
(* up to the next await.  Promise continuations that run in the same turn  *)
(* (callers resuming on a settled promise, a waiter resuming on its slot)  *)
(* belong to the step that settles the promise.                            *)
(***************************************************************************)
EXTENDS Integers, Sequences, FiniteSets

\* ---- bounds ----
NumCalls == 3       \* calls to ensureHlsSegments in one run
NumSlotJobs == 5    \* jobs of the limiter on its own
NumRequests == 2    \* requests to the manifest route
MaxBoxWords == 4    \* 32-bit words of a buffer handed to findBox alone
MaxNals == 3        \* NAL units in the mdat box of a file
MaxSeqGap == 4      \* largest distance between frame sequence numbers
MaxStripLen == 6    \* bytes handed to stripEmulationBytes alone
NumTelemRequests == 2  \* telemetry requests in progress at a time
NumTelemKeys == 3   \* distinct cache keys of telemetry requests
MaxFiles == 3       \* names in the listing of an event folder
\* Capacity of the telemetry cache: 200 in the source, which compares the
\* size of the map with it and does nothing else with it.
TELEMETRY_CACHE_MAX == 2
NumKeys == 2        \* distinct cache keys
LiveKeys == 1       \* cache keys of the calls under fair scheduling
NumGetters == 3     \* callers of getEvents in progress at a time
NumScans == 3       \* scan promises created in a run
MaxChunks == 2      \* chunks a segmenter lists before it ends

\* ---- program constants ----
MAX_CONCURRENT == 2

Calls == 1..NumCalls
Keys == 1..NumKeys

VARIABLES
  pc,           \* position of each ensureHlsSegments call
  key,          \* cacheKey of each call (0 before the call is made)
  awaiting,     \* the job whose manifestReady promise the call returned
  res,          \* boolean the call resolved to
  activeJobs,   \* cacheKey -> job whose manifestReady is stored (0: no entry)
  activeCount,  \* slots in use
  waitQueue,    \* jobs waiting for a slot, in arrival order
  job,          \* position of each runSegmentation
  outcome,      \* state of each manifestReady promise
  exitKind,     \* how the job's process ended
  nchunks,      \* chunks listed so far by the job's running process
  content,      \* manifest content read by the salvage step
  dir,          \* cacheKey -> cache directory exists
  manifest      \* cacheKey -> stream.m3u8 in that directory

\* The order of acquireSlot calls and of slot grants, kept for the limiter
\* on its own (SpecSlots).
VARIABLES
  arrived,      \* jobs in the order they called acquireSlot
  granted,      \* jobs in the order they got a slot
  waited        \* jobs whose acquireSlot call had to wait

slotVars == <<arrived, granted, waited>>

\* The manifest route of the HTTP server and the video source it serves.
VARIABLES
  route,        \* position of each request in the manifest route handler
  streamUrl,    \* what getStreamUrl gave the request ("url" or "null")
  response,     \* HTTP status the request was answered with (0: not yet)
  source        \* the storage backend and the state of the video file

routeVars == <<route, streamUrl, response, source>>

\* The MP4 box parser of server/sei.ts.
VARIABLES
  buf,          \* the file content: a sequence of bytes
  boxArgs,      \* arguments of a findBox call
  boxRes        \* what the call returned

boxVars == <<buf, boxArgs, boxRes>>

\* extractTelemetry of server/sei.ts.
VARIABLES
  clip,         \* what the file under filePath is made of
  seiPc,        \* position of the extractTelemetry call
  frames,       \* frames: the decoded SEI messages
  durations,    \* durations: what parseFrameDurations returned
  frameTimesMs  \* frameTimesMs of the result

seiVars == <<clip, seiPc, frames, durations, frameTimesMs>>

\* The functions of the server that keep no state, called on their own.
VARIABLES
  call,         \* the function called and its arguments
  ret           \* what the call returned

pureVars == <<call, ret>>

\* The telemetry route of the HTTP server and its result cache.
VARIABLES
  telemetryCache,  \* the entries of the Map, in insertion order
  oldest,          \* the key telemetryCacheSet deleted last (0: none yet)
  telem            \* position, cache key and answer of each request

telemVars == <<telemetryCache, oldest, telem>>

\* The event list of the HTTP server and the scan that fills it.  An event
\* list is a number: 0 is null, i the list scan i found.
VARIABLES
  cachedEvents,    \* the list in memory
  scanPromise,     \* the scan the promise belongs to (0: null)
  scanIsRefresh,
  diskCache,       \* the list in the cache file (0: no usable file)
  scans,           \* position and result of each scan promise
  getter           \* position and result of each caller of getEvents

eventVars == <<cachedEvents, scanPromise, scanIsRefresh, diskCache, scans,
               getter>>

restVars == <<pureVars, telemVars, eventVars>>

\* State of the other parts of the server, which the engine never touches.
auxVars == <<slotVars, routeVars, boxVars, seiVars, restVars>>

engineVars == <<pc, key, awaiting, res, activeJobs, outcome, exitKind,
                nchunks, content, dir, manifest>>

vars == <<pc, key, awaiting, res, activeJobs, activeCount, waitQueue, job,
          outcome, exitKind, nchunks, content, dir, manifest, auxVars>>

SlotsIdle == arrived = <<>> /\ granted = <<>> /\ waited = {}
RouteIdle ==
  /\ route = [c \in Calls |-> "off"]
  /\ streamUrl = [c \in Calls |-> "none"]
  /\ response = [c \in Calls |-> 0]
  /\ source = [backend |-> "local", listed |-> TRUE, token |-> TRUE,
               reachable |-> TRUE, onDisk |-> TRUE, valid |-> TRUE]
BoxIdle ==
  /\ buf = <<>>
  /\ boxArgs = [start |-> 0, end |-> 0, name |-> <<>>]
  /\ boxRes = [kind |-> "none", start |-> 0, end |-> 0, size |-> 0, read |-> 0]
\* A list of numbers num[i] / den; kind "null" where the code has null.
NoList == [kind |-> "null", num |-> <<>>, den |-> 1]
NoClip == [nals |-> <<>>, moov |-> [layout |-> "none", version |-> 0,
                                    timescale |-> 1, entries |-> <<>>]]
SeiIdle ==
  /\ clip = NoClip
  /\ seiPc = "off"
  /\ frames = <<>>
  /\ durations = NoList
  /\ frameTimesMs = NoList
PureIdle == call = [fn |-> "none"] /\ ret = [done |-> FALSE]
TelemIdle ==
  /\ telemetryCache = <<>>
  /\ oldest = 0
  /\ telem = [r \in 1..NumTelemRequests |->
               [pc |-> "idle", key |-> 0, answer |-> "none"]]
NoScan == [st |-> "none", force |-> FALSE, value |-> 0]
NoGetter == [pc |-> "idle", on |-> 0, result |-> 0, error |-> FALSE]
EventsIdle ==
  /\ cachedEvents = 0
  /\ scanPromise = 0
  /\ scanIsRefresh = FALSE
  /\ diskCache = 0
  /\ scans = [i \in 1..NumScans |-> NoScan]
  /\ getter = [g \in 1..NumGetters |-> NoGetter]
RestIdle == PureIdle /\ TelemIdle /\ EventsIdle
AuxIdle == SlotsIdle /\ RouteIdle /\ BoxIdle /\ SeiIdle /\ RestIdle

\* ---- the manifest file ----
\* ends counts the #EXT-X-ENDLIST lines; by names the writer of the chunk
\* list (0: a previous run of the server).
NoFile == [exists |-> FALSE, chunks |-> 0, ends |-> 0, by |-> 0]
StaleManifest == [exists |-> TRUE, chunks |-> 1, ends |-> 0, by |-> 0]
CachedManifest == [exists |-> TRUE, chunks |-> 1, ends |-> 1, by |-> 0]

\* The marker test of isCompleteManifest, failing on a one-marker playlist.
isCompleteManifest_Miss(m) == m.exists /\ m.ends > 1

isCompleteManifest(m) == m.exists /\ m.ends >= 1

Init ==
  /\ pc = [c \in Calls |-> "idle"]
  /\ key = [c \in Calls |-> 0]
  /\ awaiting = [c \in Calls |-> 0]
  /\ res = [c \in Calls |-> "none"]
  /\ activeJobs = [k \in Keys |-> 0]
  /\ activeCount = 0
  /\ waitQueue = <<>>
  /\ job = [c \in Calls |-> "none"]
  /\ outcome = [c \in Calls |-> "none"]
  /\ exitKind = [c \in Calls |-> "none"]
  /\ nchunks = [c \in Calls |-> 0]
  /\ content = [c \in Calls |-> NoFile]
  /\ manifest \in [Keys -> {NoFile, StaleManifest, CachedManifest}]
  /\ dir = [k \in Keys |-> manifest[k].exists]
  /\ AuxIdle

\* ---- promise settlement ----
\* manifestReady = Promise.race([waitForManifest, processComplete]): the
\* first settlement wins, and every call awaiting the promise resumes.
Resolve(j, v) ==
  IF outcome[j] = "pending"
  THEN /\ outcome' = [outcome EXCEPT ![j] = v]
       /\ pc' = [c \in Calls |->
                   IF pc[c] = "wait" /\ awaiting[c] = j THEN "ret" ELSE pc[c]]
       /\ res' = [c \in Calls |->
                   IF pc[c] = "wait" /\ awaiting[c] = j THEN v ELSE res[c]]
  ELSE UNCHANGED <<outcome, pc, res>>

\* acquireSlot with <= in place of <.
acquireSlot_OffByOne(j) ==
  IF activeCount <= MAX_CONCURRENT
  THEN /\ activeCount' = activeCount + 1
       /\ waitQueue' = waitQueue
       /\ job' = [job EXCEPT ![j] = "mkdir"]
  ELSE /\ activeCount' = activeCount
       /\ waitQueue' = Append(waitQueue, j)
       /\ job' = [job EXCEPT ![j] = "queued"]

\* ---- slot limiter ----
\* acquireSlot, as called at the top of runSegmentation by job j.
acquireSlot(j) ==
  IF activeCount < MAX_CONCURRENT
  THEN /\ activeCount' = activeCount + 1
       /\ waitQueue' = waitQueue
       /\ job' = [job EXCEPT ![j] = "mkdir"]
  ELSE /\ activeCount' = activeCount
       /\ waitQueue' = Append(waitQueue, j)
       /\ job' = [job EXCEPT ![j] = "queued"]

\* releaseSlot giving the slot back also when it hands it to a waiter.
releaseSlot_Decrements(j) ==
  IF waitQueue # <<>>
  THEN /\ waitQueue' = Tail(waitQueue)
       /\ activeCount' = activeCount - 1
       /\ job' = [job EXCEPT ![j] = "done", ![Head(waitQueue)] = "mkdir"]
  ELSE /\ waitQueue' = waitQueue
       /\ activeCount' = activeCount - 1
       /\ job' = [job EXCEPT ![j] = "done"]

\* releaseSlot taking the newest waiter (pop in place of shift).
releaseSlot_Lifo(j) ==
  IF waitQueue # <<>>
  THEN /\ waitQueue' = SubSeq(waitQueue, 1, Len(waitQueue) - 1)
       /\ activeCount' = activeCount
       /\ job' = [job EXCEPT ![j] = "done",
                             ![waitQueue[Len(waitQueue)]] = "mkdir"]
  ELSE /\ waitQueue' = waitQueue
       /\ activeCount' = activeCount - 1
       /\ job' = [job EXCEPT ![j] = "done"]

\* releaseSlot, as called in the finally block of job j, which ends there:
\* the slot goes to the first waiter, which resumes in the same turn, or
\* it is given back.
releaseSlot(j) ==
  IF waitQueue # <<>>
  THEN /\ waitQueue' = Tail(waitQueue)
       /\ activeCount' = activeCount
       /\ job' = [job EXCEPT ![j] = "done", ![Head(waitQueue)] = "mkdir"]
  ELSE /\ waitQueue' = waitQueue
       /\ activeCount' = activeCount - 1
       /\ job' = [job EXCEPT ![j] = "done"]

\* The finally block without activeJobs.delete.
Finally_KeepsEntry(j, v, kind) ==
  /\ releaseSlot(j)
  /\ activeJobs' = activeJobs
  /\ exitKind' = [exitKind EXCEPT ![j] = kind]
  /\ nchunks' = [nchunks EXCEPT ![j] = 0]
  /\ content' = [content EXCEPT ![j] = NoFile]
  /\ Resolve(j, v)

\* The finally block of runSegmentation of job j (releaseSlot, then
\* activeJobs.delete), which then resolves processComplete to v.
Finally(j, v, kind) ==
  /\ releaseSlot(j)
  /\ activeJobs' = [activeJobs EXCEPT ![key[j]] = 0]
  /\ exitKind' = [exitKind EXCEPT ![j] = kind]
  /\ nchunks' = [nchunks EXCEPT ![j] = 0]
  /\ content' = [content EXCEPT ![j] = NoFile]
  /\ Resolve(j, v)

\* ---- ensureHlsSegments ----
\* The call is made; await isCompleteManifest, then the job-map lookup.
\* Calls and keys are interchangeable, so they are used in index order.
Call(c, k) ==
  /\ pc[c] = "idle"
  /\ \A d \in Calls : d < c => pc[d] # "idle"
  /\ \A i \in 1..(k - 1) : \E d \in Calls : key[d] = i
  /\ key' = [key EXCEPT ![c] = k]
  /\ IF isCompleteManifest(manifest[k])
     THEN /\ pc' = [pc EXCEPT ![c] = "ret"]
          /\ res' = [res EXCEPT ![c] = "true"]
          /\ UNCHANGED awaiting
     ELSE IF activeJobs[k] # 0
     THEN LET j == activeJobs[k] IN
          /\ awaiting' = [awaiting EXCEPT ![c] = j]
          /\ IF outcome[j] = "pending"
             THEN /\ pc' = [pc EXCEPT ![c] = "wait"]
                  /\ UNCHANGED res
             ELSE /\ pc' = [pc EXCEPT ![c] = "ret"]
                  /\ res' = [res EXCEPT ![c] = outcome[j]]
     ELSE /\ pc' = [pc EXCEPT ![c] = "stat"]
          /\ UNCHANGED <<awaiting, res>>
  /\ UNCHANGED <<activeJobs, activeCount, waitQueue, job, outcome,
                 exitKind, nchunks, content, dir, manifest>>
  /\ UNCHANGED auxVars

\* runSegmentation up to its first await, Promise.race, activeJobs.set.
StartJob(c) ==
  /\ acquireSlot(c)
  /\ activeJobs' = [activeJobs EXCEPT ![key[c]] = c]
  /\ outcome' = [outcome EXCEPT ![c] = "pending"]
  /\ awaiting' = [awaiting EXCEPT ![c] = c]
  /\ pc' = [pc EXCEPT ![c] = "wait"]
  /\ UNCHANGED <<key, res, exitKind, nchunks, content>>

\* The stale check without the rm: the job starts whatever stat finds.
Stat_NoCleanup(c) ==
  /\ pc[c] = "stat"
  /\ StartJob(c)
  /\ UNCHANGED <<dir, manifest>>
  /\ UNCHANGED auxVars

\* await stat(manifestFile) of the stale check.
Stat(c) ==
  /\ pc[c] = "stat"
  /\ IF manifest[key[c]].exists
     THEN /\ pc' = [pc EXCEPT ![c] = "rm"]
          /\ UNCHANGED <<key, awaiting, res, activeJobs, activeCount,
                         waitQueue, job, outcome, exitKind, nchunks, content>>
     ELSE StartJob(c)
  /\ UNCHANGED <<dir, manifest>>
  /\ UNCHANGED auxVars

\* rm(cacheDir, recursive, force) under way: it unlinks the entries of the
\* directory in steps of its own before it removes the directory and
\* settles, so the manifest is gone before the call resumes.
RmUnlink(c) ==
  /\ pc[c] = "rm"
  /\ manifest[key[c]].exists
  /\ manifest' = [manifest EXCEPT ![key[c]] = NoFile]
  /\ UNCHANGED <<pc, key, awaiting, res, activeJobs, activeCount, waitQueue,
                 job, outcome, exitKind, nchunks, content, dir>>
  /\ UNCHANGED auxVars

\* await rm(cacheDir, recursive, force), then the job starts.
Rm(c) ==
  /\ pc[c] = "rm"
  /\ dir' = [dir EXCEPT ![key[c]] = FALSE]
  /\ manifest' = [manifest EXCEPT ![key[c]] = NoFile]
  /\ StartJob(c)
  /\ UNCHANGED auxVars

\* ---- runSegmentation ----
\* await mkdir, then spawn.
Mkdir(j) ==
  /\ job[j] = "mkdir"
  /\ job' = [job EXCEPT ![j] = "running"]
  /\ dir' = [dir EXCEPT ![key[j]] = TRUE]
  /\ UNCHANGED <<pc, key, awaiting, res, activeJobs, activeCount, waitQueue,
                 outcome, exitKind, nchunks, content, manifest>>
  /\ UNCHANGED auxVars

\* The catch path without the finally block.
SpawnError_NoFinally(j) ==
  /\ job[j] = "mkdir"
  /\ job' = [job EXCEPT ![j] = "done"]
  /\ exitKind' = [exitKind EXCEPT ![j] = "error"]
  /\ Resolve(j, "false")
  /\ UNCHANGED <<key, awaiting, activeJobs, activeCount, waitQueue, nchunks,
                 content, dir, manifest>>
  /\ UNCHANGED auxVars

\* mkdir or spawn throws: catch, return false, finally.
SpawnError(j) ==
  /\ job[j] = "mkdir"
  /\ Finally(j, "false", "error")
  /\ UNCHANGED <<key, awaiting, dir, manifest>>
  /\ UNCHANGED auxVars

\* ---- the segmenter process ----
\* It rewrites the playlist from its own chunk list after each chunk.
ProcWrite(j) ==
  /\ job[j] = "running"
  /\ dir[key[j]]
  /\ nchunks[j] < MaxChunks
  /\ nchunks' = [nchunks EXCEPT ![j] = nchunks[j] + 1]
  /\ manifest' = [manifest EXCEPT ![key[j]] =
       [exists |-> TRUE, chunks |-> nchunks[j] + 1, ends |-> 0, by |-> j]]
  /\ UNCHANGED <<pc, key, awaiting, res, activeJobs, activeCount, waitQueue,
                 job, outcome, exitKind, content, dir>>
  /\ UNCHANGED auxVars

\* Exit 0: the final playlist carries the end-of-stream marker; the close
\* event resumes runSegmentation, which returns true.
ProcExit0(j) ==
  /\ job[j] = "running"
  /\ dir[key[j]]
  /\ nchunks[j] >= 1
  /\ manifest' = [manifest EXCEPT ![key[j]] =
       [exists |-> TRUE, chunks |-> nchunks[j], ends |-> 1, by |-> j]]
  /\ Finally(j, "true", "ok")
  /\ UNCHANGED <<key, awaiting, dir>>
  /\ UNCHANGED auxVars

\* A process that emits no close event once killed.
ProcFail_NoClose(j, kind) ==
  /\ kind # "killed"
  /\ job[j] = "running"
  /\ job' = [job EXCEPT ![j] = "salvageRead"]
  /\ exitKind' = [exitKind EXCEPT ![j] = kind]
  /\ nchunks' = [nchunks EXCEPT ![j] = 0]
  /\ UNCHANGED <<pc, key, awaiting, res, activeJobs, activeCount, waitQueue,
                 outcome, content, dir, manifest>>
  /\ UNCHANGED auxVars

\* Non-zero exit, or SIGKILL from the kill timer: the close event resumes
\* runSegmentation, which starts reading the manifest for the salvage.
ProcFail(j, kind) ==
  /\ job[j] = "running"
  /\ job' = [job EXCEPT ![j] = "salvageRead"]
  /\ exitKind' = [exitKind EXCEPT ![j] = kind]
  /\ nchunks' = [nchunks EXCEPT ![j] = 0]
  /\ UNCHANGED <<pc, key, awaiting, res, activeJobs, activeCount, waitQueue,
                 outcome, content, dir, manifest>>
  /\ UNCHANGED auxVars

\* The failure path of runSegmentation returning true.
SalvageRead_ReturnsTrue(j) ==
  /\ job[j] = "salvageRead"
  /\ LET m == manifest[key[j]] IN
     IF m.exists /\ m.ends = 0
     THEN /\ job' = [job EXCEPT ![j] = "salvageWrite"]
          /\ content' = [content EXCEPT ![j] = m]
          /\ UNCHANGED <<pc, res, activeJobs, activeCount, waitQueue,
                         outcome, exitKind, nchunks>>
     ELSE Finally(j, "true", exitKind[j])
  /\ UNCHANGED <<key, awaiting, dir, manifest>>
  /\ UNCHANGED auxVars

\* await readFile(manifestFile) of the salvage.
SalvageRead(j) ==
  /\ job[j] = "salvageRead"
  /\ LET m == manifest[key[j]] IN
     IF m.exists /\ m.ends = 0
     THEN /\ job' = [job EXCEPT ![j] = "salvageWrite"]
          /\ content' = [content EXCEPT ![j] = m]
          /\ UNCHANGED <<pc, res, activeJobs, activeCount, waitQueue,
                         outcome, exitKind, nchunks>>
     ELSE Finally(j, "false", exitKind[j])
  /\ UNCHANGED <<key, awaiting, dir, manifest>>
  /\ UNCHANGED auxVars

\* await writeFile(manifestFile, content + ENDLIST); it throws when the
\* directory is gone.
SalvageWrite(j) ==
  /\ job[j] = "salvageWrite"
  /\ manifest' = [manifest EXCEPT ![key[j]] =
       IF dir[key[j]]
       THEN [content[j] EXCEPT !.ends = content[j].ends + 1]
       ELSE manifest[key[j]]]
  /\ Finally(j, "false", exitKind[j])
  /\ UNCHANGED <<key, awaiting, dir>>
  /\ UNCHANGED auxVars

\* ---- waitForManifest ----
\* A poll whose stat succeeds.  The poll runs from the start of the job
\* until it returns; its result matters while manifestReady is pending.
PollSeesManifest(j) ==
  /\ outcome[j] = "pending"
  /\ manifest[key[j]].exists
  /\ Resolve(j, "true")
  /\ UNCHANGED <<key, awaiting, activeJobs, activeCount, waitQueue, job,
                 exitKind, nchunks, content, dir, manifest>>
  /\ UNCHANGED auxVars

\* The poll loop runs out of time: the last stat failed, however recently
\* the manifest was written.
PollTimeout(j) ==
  /\ outcome[j] = "pending"
  /\ Resolve(j, "false")
  /\ UNCHANGED <<key, awaiting, activeJobs, activeCount, waitQueue, job,
                 exitKind, nchunks, content, dir, manifest>>
  /\ UNCHANGED auxVars

Next ==
  \/ \E c \in Calls, k \in Keys : Call(c, k)
  \/ \E c \in Calls : Stat(c)
  \/ \E c \in Calls : RmUnlink(c)
  \/ \E c \in Calls : Rm(c)
  \/ \E j \in Calls : Mkdir(j)
  \/ \E j \in Calls : SpawnError(j)
  \/ \E j \in Calls : ProcWrite(j)
  \/ \E j \in Calls : ProcExit0(j)
  \/ \E j \in Calls : ProcFail(j, "nonzero")
  \/ \E j \in Calls : ProcFail(j, "killed")
  \/ \E j \in Calls : SalvageRead(j)
  \/ \E j \in Calls : SalvageWrite(j)
  \/ \E j \in Calls : PollSeesManifest(j)
  \/ \E j \in Calls : PollTimeout(j)

Spec == Init /\ [][Next]_vars

\* ---- the engine under fair scheduling ----
\* What the run time guarantees of the steps above: an await on the file
\* system settles, and the kill timer set after spawn fires and the killed
\* process emits close.  A process is not required to end by itself, nor a
\* call to be made.
Fairness ==
  /\ \A c \in Calls : WF_vars(Stat(c)) /\ WF_vars(Rm(c))
  /\ \A j \in Calls :
       /\ WF_vars(Mkdir(j) \/ SpawnError(j))
       /\ WF_vars(ProcFail(j, "killed"))
       /\ WF_vars(SalvageRead(j))
       /\ WF_vars(SalvageWrite(j))

\* The steps of Next with the calls made for the streams 1..LiveKeys.
NextLive ==
  \/ \E c \in Calls, k \in 1..LiveKeys : Call(c, k)
  \/ \E c \in Calls : Stat(c)
  \/ \E c \in Calls : RmUnlink(c)
  \/ \E c \in Calls : Rm(c)
  \/ \E j \in Calls : Mkdir(j)
  \/ \E j \in Calls : SpawnError(j)
  \/ \E j \in Calls : ProcWrite(j)
  \/ \E j \in Calls : ProcExit0(j)
  \/ \E j \in Calls : ProcFail(j, "nonzero")
  \/ \E j \in Calls : ProcFail(j, "killed")
  \/ \E j \in Calls : SalvageRead(j)
  \/ \E j \in Calls : SalvageWrite(j)
  \/ \E j \in Calls : PollSeesManifest(j)
  \/ \E j \in Calls : PollTimeout(j)

InitLive == Init /\ \A k \in Keys : k > LiveKeys => manifest[k] = NoFile

SpecLive == InitLive /\ [][NextLive]_vars /\ Fairness

\* ---- the slot limiter on its own ----
\* runSegmentation reduced to its acquireSlot and releaseSlot calls, with
\* more jobs than the engine's bound allows, so that several wait at once.
SlotJobs == 1..NumSlotJobs

InitSlots ==
  /\ pc = [c \in Calls |-> "idle"]
  /\ key = [c \in Calls |-> 0]
  /\ awaiting = [c \in Calls |-> 0]
  /\ res = [c \in Calls |-> "none"]
  /\ activeJobs = [k \in Keys |-> 0]
  /\ outcome = [c \in Calls |-> "none"]
  /\ exitKind = [c \in Calls |-> "none"]
  /\ nchunks = [c \in Calls |-> 0]
  /\ content = [c \in Calls |-> NoFile]
  /\ manifest = [k \in Keys |-> NoFile]
  /\ dir = [k \in Keys |-> FALSE]
  /\ activeCount = 0
  /\ waitQueue = <<>>
  /\ job = [j \in SlotJobs |-> "none"]
  /\ SlotsIdle
  /\ RouteIdle
  /\ BoxIdle
  /\ SeiIdle
  /\ RestIdle

\* await acquireSlot() at the top of runSegmentation.
SlotAcquire(j) ==
  /\ job[j] = "none"
  /\ acquireSlot(j)
  /\ arrived' = Append(arrived, j)
  /\ granted' = IF job'[j] = "mkdir" THEN Append(granted, j) ELSE granted
  /\ waited' = IF job'[j] = "queued" THEN waited \cup {j} ELSE waited
  /\ UNCHANGED <<engineVars, restVars, routeVars, boxVars, seiVars>>

\* releaseSlot() in the finally block; a waiter that gets the slot resumes.
SlotRelease(j) ==
  /\ job[j] = "mkdir"
  /\ releaseSlot(j)
  /\ granted' = IF waitQueue # <<>> THEN Append(granted, Head(waitQueue))
                ELSE granted
  /\ UNCHANGED <<arrived, waited>>
  /\ UNCHANGED <<engineVars, restVars, routeVars, boxVars, seiVars>>

NextSlots ==
  \/ \E j \in SlotJobs : SlotAcquire(j)
  \/ \E j \in SlotJobs : SlotRelease(j)

SpecSlots == InitSlots /\ [][NextSlots]_vars

\* ---- the manifest route ----
\* GET /api/hls/:type/:eventId/:segment/:camera/stream.m3u8.  Request r
\* makes call r of ensureHlsSegments; all requests name the same video.
\* source.listed: the Drive listing resolves the path; source.token: an
\* access token is at hand; source.reachable: the Drive file can be
\* fetched; source.onDisk: the file is in the local folder (local backend)
\* or in the download cache (Drive backend).
Requests == 1..NumRequests

Sources ==
  [backend : {"local", "drive"}, listed : BOOLEAN, token : BOOLEAN,
   reachable : BOOLEAN, onDisk : BOOLEAN, valid : BOOLEAN]

InitRoute ==
  /\ pc = [c \in Calls |-> "idle"]
  /\ key = [c \in Calls |-> 0]
  /\ awaiting = [c \in Calls |-> 0]
  /\ res = [c \in Calls |-> "none"]
  /\ activeJobs = [k \in Keys |-> 0]
  /\ activeCount = 0
  /\ waitQueue = <<>>
  /\ job = [c \in Calls |-> "none"]
  /\ outcome = [c \in Calls |-> "none"]
  /\ exitKind = [c \in Calls |-> "none"]
  /\ nchunks = [c \in Calls |-> 0]
  /\ content = [c \in Calls |-> NoFile]
  /\ manifest \in [Keys -> {NoFile, StaleManifest, CachedManifest}]
  /\ \A k \in Keys : k > 1 => manifest[k] = NoFile
  /\ dir = [k \in Keys |-> manifest[k].exists]
  /\ SlotsIdle
  /\ route = [c \in Calls |-> IF c \in Requests THEN "params" ELSE "off"]
  /\ streamUrl = [c \in Calls |-> "none"]
  /\ response = [c \in Calls |-> 0]
  /\ source \in Sources
  /\ source.backend = "local" =>
       (source.listed /\ source.token /\ source.reachable)
  /\ BoxIdle
  /\ SeiIdle
  /\ RestIdle

\* The handler answers request r with the given status and returns.
Respond(r, status) ==
  /\ response' = [response EXCEPT ![r] = status]
  /\ route' = [route EXCEPT ![r] = "done"]

\* validateParams, the RecentClips lookup and getVideoPath.
RouteParams(r) ==
  /\ route[r] = "params"
  /\ IF source.valid
     THEN /\ route' = [route EXCEPT ![r] = "streamUrl"]
          /\ UNCHANGED response
     ELSE Respond(r, 400)
  /\ UNCHANGED <<streamUrl, source, slotVars, boxVars, seiVars, engineVars, restVars,
                 activeCount, waitQueue, job>>

\* await storage.getStreamUrl?.(videoRelPath) ?? null: the local backend
\* has no getStreamUrl; the Drive backend gives a URL when the listing
\* resolves the path and a token is at hand, without fetching anything.
\* With a URL the handler goes straight to ensureHlsSegments.
RouteStreamUrl(r) ==
  /\ route[r] = "streamUrl"
  /\ IF source.backend = "drive" /\ source.listed /\ source.token
     THEN /\ streamUrl' = [streamUrl EXCEPT ![r] = "url"]
          /\ route' = [route EXCEPT ![r] = "ensure"]
     ELSE /\ streamUrl' = [streamUrl EXCEPT ![r] = "null"]
          /\ route' = [route EXCEPT ![r] = "localPath"]
  /\ UNCHANGED <<response, source, slotVars, boxVars, seiVars, engineVars, restVars,
                 activeCount, waitQueue, job>>

\* await storage.getLocalPath(videoRelPath): the local backend returns the
\* path; the Drive backend returns the cached file or downloads it, and
\* throws when it cannot.
RouteLocalPath(r) ==
  /\ route[r] = "localPath"
  /\ IF source.backend = "local" \/ source.onDisk
     THEN /\ route' = [route EXCEPT ![r] = "stat"]
          /\ UNCHANGED <<response, source>>
     ELSE IF source.listed /\ source.token /\ source.reachable
     THEN /\ route' = [route EXCEPT ![r] = "stat"]
          /\ source' = [source EXCEPT !.onDisk = TRUE]
          /\ UNCHANGED response
     ELSE /\ Respond(r, 404)
          /\ UNCHANGED source
  /\ UNCHANGED <<streamUrl, slotVars, boxVars, seiVars, engineVars, restVars, activeCount,
                 waitQueue, job>>

\* await stat(localPath), skipped when streaming.
RouteStat(r) ==
  /\ route[r] = "stat"
  /\ IF source.onDisk
     THEN /\ route' = [route EXCEPT ![r] = "ensure"]
          /\ UNCHANGED response
     ELSE Respond(r, 404)
  /\ UNCHANGED <<streamUrl, source, slotVars, boxVars, seiVars, engineVars, restVars,
                 activeCount, waitQueue, job>>

\* ensureHlsSegments has returned: 500 on false, else the manifest is read
\* and served.
RouteRespond(r) ==
  /\ route[r] = "ensure"
  /\ pc[r] = "ret"
  /\ IF res[r] = "true" /\ manifest[key[r]].exists
     THEN Respond(r, 200)
     ELSE Respond(r, 500)
  /\ UNCHANGED <<streamUrl, source, slotVars, boxVars, seiVars, engineVars, restVars,
                 activeCount, waitQueue, job>>

\* The segmenter of job j can read its input.
SourceReadable(j) ==
  IF streamUrl[j] = "url" THEN source.reachable ELSE source.onDisk

NextRoute ==
  \/ \E r \in Requests : RouteParams(r)
  \/ \E r \in Requests : RouteStreamUrl(r)
  \/ \E r \in Requests : RouteLocalPath(r)
  \/ \E r \in Requests : RouteStat(r)
  \/ \E r \in Requests : RouteRespond(r)
  \/ \E c \in Requests, k \in Keys : route[c] = "ensure" /\ k = 1 /\ Call(c, k)
  \/ \E c \in Calls : Stat(c)
  \/ \E c \in Calls : RmUnlink(c)
  \/ \E c \in Calls : Rm(c)
  \/ \E j \in Calls : Mkdir(j)
  \/ \E j \in Calls : SpawnError(j)
  \/ \E j \in Calls : SourceReadable(j) /\ ProcWrite(j)
  \/ \E j \in Calls : SourceReadable(j) /\ ProcExit0(j)
  \/ \E j \in Calls : ProcFail(j, "nonzero")
  \/ \E j \in Calls : ProcFail(j, "killed")
  \/ \E j \in Calls : SalvageRead(j)
  \/ \E j \in Calls : SalvageWrite(j)
  \/ \E j \in Calls : PollSeesManifest(j)
  \/ \E j \in Calls : PollTimeout(j)

SpecRoute == InitRoute /\ [][NextRoute]_vars

\* ---- server/sei.ts: bytes ----
\* A buffer is a sequence of bytes; offsets count from 0 as in the code.
At(b, i) == b[i + 1]

\* DataView.getUint32 throws a RangeError when the four bytes are not all
\* inside the buffer.
RangeError == -1

getUint32(b, pos) ==
  IF pos < 0 \/ pos + 4 > Len(b)
  THEN RangeError
  ELSE At(b, pos) * 16777216 + At(b, pos + 1) * 65536
         + At(b, pos + 2) * 256 + At(b, pos + 3)

\* readAscii: a byte index outside the buffer reads undefined, which
\* String.fromCharCode turns into the character 0.
readAscii(b, offset, len) ==
  [i \in 1..len |->
     IF offset + i - 1 < Len(b) THEN At(b, offset + i - 1) ELSE 0]

\* A 64-bit size with a non-zero high word: 2^32 or more, longer than any
\* buffer readFile returns.
Huge == 1073741824

\* ---- findBox ----
NullBox == [kind |-> "null", start |-> 0, end |-> 0, size |-> 0, read |-> 0]

\* The loop of findBox from offset pos; read is the end of the highest
\* byte read so far.  kind "throw": a RangeError left the function.
RECURSIVE findBoxFrom(_, _, _, _, _)
findBoxFrom(b, pos, end, name, read) ==
  IF pos + 8 > end
  THEN [NullBox EXCEPT !.read = read]
  ELSE
    LET size32 == getUint32(b, pos)
        type == readAscii(b, pos + 4, 4)
        high == getUint32(b, pos + 8)
        low == getUint32(b, pos + 12)
        size == IF size32 = 1 THEN (IF high = 0 THEN low ELSE Huge)
                ELSE IF size32 = 0 THEN end - pos
                ELSE size32
        headerSize == IF size32 = 1 THEN 16 ELSE 8
        seen == IF size32 = 1 THEN pos + 16 ELSE pos + 8
        rd == IF seen > read THEN seen ELSE read
    IN
    IF size32 = RangeError \/ (size32 = 1 /\ (high = RangeError \/ low = RangeError))
    THEN [NullBox EXCEPT !.kind = "throw", !.read = rd]
    ELSE IF size < 8 \/ pos + size > end
    THEN [NullBox EXCEPT !.read = rd]
    ELSE IF type = name
    THEN [kind |-> "box", start |-> pos + headerSize, end |-> pos + size,
          size |-> size - headerSize, read |-> rd]
    ELSE findBoxFrom(b, pos + size, end, name, rd)

findBox(b, start, end, name) == findBoxFrom(b, start, end, name, start)

\* Four-character codes: box types and handler types.
FourCC ==
  [mdat |-> <<109, 100, 97, 116>>,
   free |-> <<102, 114, 101, 101>>,
   moov |-> <<109, 111, 111, 118>>,
   trak |-> <<116, 114, 97, 107>>,
   mdia |-> <<109, 100, 105, 97>>,
   hdlr |-> <<104, 100, 108, 114>>,
   mdhd |-> <<109, 100, 104, 100>>,
   minf |-> <<109, 105, 110, 102>>,
   stbl |-> <<115, 116, 98, 108>>,
   stts |-> <<115, 116, 116, 115>>,
   vide |-> <<118, 105, 100, 101>>,
   soun |-> <<115, 111, 117, 110>>]

\* ---- findBox on its own ----

U32B(n) ==
  <<(n \div 16777216) % 256, (n \div 65536) % 256, (n \div 256) % 256, n % 256>>

RECURSIVE Flatten(_)
Flatten(ws) == IF ws = <<>> THEN <<>> ELSE Head(ws) \o Flatten(Tail(ws))

BoxWords == {U32B(0), U32B(1), U32B(8), U32B(12), U32B(16), FourCC.mdat, FourCC.free}

BoxBuffers ==
  {Flatten(ws) : ws \in UNION {[1..n -> BoxWords] : n \in 2..MaxBoxWords}}

InitBox ==
  /\ pc = [c \in Calls |-> "idle"]
  /\ key = [c \in Calls |-> 0]
  /\ awaiting = [c \in Calls |-> 0]
  /\ res = [c \in Calls |-> "none"]
  /\ activeJobs = [k \in Keys |-> 0]
  /\ activeCount = 0
  /\ waitQueue = <<>>
  /\ job = [c \in Calls |-> "none"]
  /\ outcome = [c \in Calls |-> "none"]
  /\ exitKind = [c \in Calls |-> "none"]
  /\ nchunks = [c \in Calls |-> 0]
  /\ content = [c \in Calls |-> NoFile]
  /\ manifest = [k \in Keys |-> NoFile]
  /\ dir = [k \in Keys |-> FALSE]
  /\ SlotsIdle
  /\ RouteIdle
  /\ buf \in BoxBuffers
  /\ \E s \in {0, 8}, e \in {Len(buf), Len(buf) - 8} :
       /\ s <= e
       /\ boxArgs = [start |-> s, end |-> e, name |-> FourCC.mdat]
  /\ boxRes = [kind |-> "none", start |-> 0, end |-> 0, size |-> 0, read |-> 0]
  /\ SeiIdle
  /\ RestIdle

\* A call findBox(start, end, name) on the buffer, as findMdat and
\* parseFrameDurations make them on the file and inside a found box.
FindBoxCall ==
  /\ boxRes.kind = "none"
  /\ boxRes' = findBox(buf, boxArgs.start, boxArgs.end, boxArgs.name)
  /\ UNCHANGED <<buf, boxArgs, slotVars, routeVars, seiVars, engineVars, restVars,
                 activeCount, waitQueue, job>>

NextBox == FindBoxCall

SpecBox == InitBox /\ [][NextBox]_vars

\* ---- server/sei.ts: SEI NAL units ----
MARKER == 66        \* 0x42
SIGNATURE == 105    \* 0x69

\* The loop keeping its count of zero bytes across a removed byte.
RECURSIVE stripFrom_KeepsCount(_, _, _)
stripFrom_KeepsCount(data, i, zeros) ==
  IF i > Len(data) THEN <<>>
  ELSE IF zeros >= 2 /\ data[i] = 3
  THEN stripFrom_KeepsCount(data, i + 1, zeros)
  ELSE <<data[i]>>
         \o stripFrom_KeepsCount(data, i + 1,
                                 IF data[i] = 0 THEN zeros + 1 ELSE 0)

\* The loop of stripEmulationBytes from the i-th byte of data.
RECURSIVE stripFrom(_, _, _)
stripFrom(data, i, zeros) ==
  IF i > Len(data) THEN <<>>
  ELSE IF zeros >= 2 /\ data[i] = 3 THEN stripFrom(data, i + 1, 0)
  ELSE <<data[i]>> \o stripFrom(data, i + 1, IF data[i] = 0 THEN zeros + 1 ELSE 0)

stripEmulationBytes(data) == stripFrom(data, 1, 0)

\* protobufjs Reader.uint32 / uint64: a base-128 varint; reading past the
\* end of the payload throws.
RECURSIVE readVarint(_, _, _, _)
readVarint(p, pos, shift, acc) ==
  IF pos >= Len(p) THEN [ok |-> FALSE, value |-> 0, pos |-> pos]
  ELSE LET v == acc + (At(p, pos) % 128) * shift IN
       IF At(p, pos) < 128 THEN [ok |-> TRUE, value |-> v, pos |-> pos + 1]
       ELSE readVarint(p, pos + 1, shift * 128, v)

\* protobufjs Reader.skipType for the wire types 0, 1, 2 and 5; the others
\* are taken to throw (3, a group, is skipped by the library; no payload
\* drawn here holds one).
skipType(p, pos, wireType) ==
  LET v == readVarint(p, pos, 1, 0)
      to(n) == [ok |-> n <= Len(p), pos |-> n]
  IN
  IF wireType = 0 THEN [ok |-> v.ok, pos |-> v.pos]
  ELSE IF wireType = 1 THEN to(pos + 8)
  ELSE IF wireType = 2 THEN (IF v.ok THEN to(v.pos + v.value) ELSE [ok |-> FALSE, pos |-> pos])
  ELSE IF wireType = 5 THEN to(pos + 4)
  ELSE [ok |-> FALSE, pos |-> pos]

\* Field number of frame_seq_no in the SeiMetadata message.
FRAME_SEQ_NO == 3

\* The fields of the SeiMetadata message by field number.  Floats and
\* doubles are kept as their IEEE bytes, 0 being the all-zero pattern.
Schema ==
  << [name |-> "version", type |-> "varint"],
     [name |-> "gearState", type |-> "varint"],
     [name |-> "frameSeqNo", type |-> "varint"],
     [name |-> "vehicleSpeedMps", type |-> "float"],
     [name |-> "acceleratorPedalPosition", type |-> "float"],
     [name |-> "steeringWheelAngle", type |-> "float"],
     [name |-> "blinkerOnLeft", type |-> "bool"],
     [name |-> "blinkerOnRight", type |-> "bool"],
     [name |-> "brakeApplied", type |-> "bool"],
     [name |-> "autopilotState", type |-> "varint"],
     [name |-> "latitudeDeg", type |-> "double"],
     [name |-> "longitudeDeg", type |-> "double"],
     [name |-> "headingDeg", type |-> "double"] >>

\* The value of a field that the message does not hold.
Zero(type) ==
  IF type = "bool" THEN FALSE
  ELSE IF type = "float" THEN <<0, 0, 0, 0>>
  ELSE IF type = "double" THEN <<0, 0, 0, 0, 0, 0, 0, 0>>
  ELSE 0

\* protobufjs Reader.uint32 / uint64 / bool / float / double; reading past
\* the end of the payload throws.
readField(p, pos, type) ==
  LET v == readVarint(p, pos, 1, 0)
      n == IF type = "float" THEN 4 ELSE 8
  IN
  IF type = "varint" THEN v
  ELSE IF type = "bool" THEN [ok |-> v.ok, value |-> v.value # 0, pos |-> v.pos]
  ELSE IF pos + n > Len(p) THEN [ok |-> FALSE, value |-> <<>>, pos |-> pos]
  ELSE [ok |-> TRUE, value |-> SubSeq(p, pos + 1, pos + n), pos |-> pos + n]

\* SeiMetadata.decode: the fields of the payload in turn, unset fields at
\* their defaults; ok FALSE when the reader throws.
RECURSIVE decodeFrom(_, _, _)
decodeFrom(p, pos, msg) ==
  IF pos >= Len(p) THEN msg
  ELSE
    LET tag == readVarint(p, pos, 1, 0)
        no == tag.value \div 8
        v == readField(p, tag.pos, Schema[no].type)
        sk == skipType(p, tag.pos, tag.value % 8)
    IN
    IF ~ tag.ok THEN [msg EXCEPT !.ok = FALSE]
    ELSE IF no \in DOMAIN Schema
    THEN (IF v.ok
          THEN decodeFrom(p, v.pos, [msg EXCEPT !.f[Schema[no].name] = v.value])
          ELSE [msg EXCEPT !.ok = FALSE])
    ELSE (IF sk.ok THEN decodeFrom(p, sk.pos, msg)
          ELSE [msg EXCEPT !.ok = FALSE])

decode(p) ==
  decodeFrom(p, 0,
    [ok |-> TRUE,
     f |-> [nm \in {Schema[i].name : i \in DOMAIN Schema} |->
              Zero(Schema[CHOOSE i \in DOMAIN Schema :
                                 Schema[i].name = nm].type)]])

\* while (i < nal.length && nal[i] === 0x42) i++
RECURSIVE markerEnd(_, _)
markerEnd(nal, i) ==
  IF i < Len(nal) /\ At(nal, i) = MARKER THEN markerEnd(nal, i + 1) ELSE i

NoFrame == [ok |-> FALSE]

\* The object decodeSei returns for a decoded message: (msg.x) || 0 and
\* (msg.x) || false leave every value drawn here as it is.
SeiFrame(m) ==
  [frameSeqNo |-> m.frameSeqNo,
   vehicleSpeedMps |-> m.vehicleSpeedMps,
   steeringWheelAngle |-> m.steeringWheelAngle,
   gearState |-> m.gearState,
   autopilotState |-> m.autopilotState,
   brakeApplied |-> m.brakeApplied,
   blinkerOnLeft |-> m.blinkerOnLeft,
   blinkerOnRight |-> m.blinkerOnRight,
   latitudeDeg |-> m.latitudeDeg,
   longitudeDeg |-> m.longitudeDeg,
   headingDeg |-> m.headingDeg]

\* decodeSei accepting a NAL with no marker byte before the signature.
decodeSei_NoRun(nal) ==
  IF Len(nal) < 4 THEN NoFrame
  ELSE
    LET i == markerEnd(nal, 3)
        msg == decode(stripEmulationBytes(SubSeq(nal, i + 2, Len(nal) - 1)))
    IN
    IF i + 1 >= Len(nal) \/ At(nal, i) # SIGNATURE THEN NoFrame
    ELSE IF msg.ok THEN [ok |-> TRUE, frame |-> SeiFrame(msg.f)]
    ELSE NoFrame

\* decodeSei: ok FALSE where the code returns null.
decodeSei(nal) ==
  IF Len(nal) < 4 THEN NoFrame
  ELSE
    LET i == markerEnd(nal, 3)
        msg == decode(stripEmulationBytes(SubSeq(nal, i + 2, Len(nal) - 1)))
    IN
    IF i <= 3 \/ i + 1 >= Len(nal) \/ At(nal, i) # SIGNATURE THEN NoFrame
    ELSE IF msg.ok THEN [ok |-> TRUE, frame |-> SeiFrame(msg.f)]
    ELSE NoFrame

\* The while loop of extractSeiMessages from cursor: the frames pushed.
RECURSIVE nalLoop(_, _, _)
nalLoop(b, cursor, end) ==
  IF cursor + 4 > end THEN <<>>
  ELSE
    LET nalSize == getUint32(b, cursor)
        c == cursor + 4
        frame == decodeSei(SubSeq(b, c + 1, c + nalSize))
    IN
    IF nalSize < 2 \/ c + nalSize > Len(b)
    THEN nalLoop(b, c + (IF nalSize > 0 THEN nalSize ELSE 0), end)
    ELSE (IF At(b, c) % 32 = 6 /\ At(b, c + 1) = 5 /\ frame.ok
          THEN <<frame.frame>> ELSE <<>>)
           \o nalLoop(b, c + nalSize, end)

\* extractSeiMessages; kind "throw" when findMdat throws.
extractSeiMessages(b) ==
  LET box == findBox(b, 0, Len(b), FourCC.mdat) IN
  IF box.kind = "throw" THEN [kind |-> "throw", frames |-> <<>>]
  ELSE IF box.kind = "null" THEN [kind |-> "ok", frames |-> <<>>]
  ELSE [kind |-> "ok", frames |-> nalLoop(b, box.start, box.start + box.size)]

\* ---- server/sei.ts: frame durations ----
Throw == [kind |-> "throw", num |-> <<>>, den |-> 1]

Repeat(x, n) == [i \in 1..n |-> x]

\* parseStts reading the sample count where the delta is and the reverse.
RECURSIVE sttsLoop_Swapped(_, _, _, _, _)
sttsLoop_Swapped(b, pos, end, i, entryCount) ==
  IF i >= entryCount \/ pos + 8 > end THEN <<>>
  ELSE Repeat(getUint32(b, pos) * 1000, getUint32(b, pos + 4))
         \o sttsLoop_Swapped(b, pos + 8, end, i + 1, entryCount)

\* The entry loop of parseStts: the numerators delta * 1000 of the
\* durations pushed, over the denominator timescale.
RECURSIVE sttsLoop(_, _, _, _, _)
sttsLoop(b, pos, end, i, entryCount) ==
  IF i >= entryCount \/ pos + 8 > end THEN <<>>
  ELSE Repeat(getUint32(b, pos + 4) * 1000, getUint32(b, pos))
         \o sttsLoop(b, pos + 8, end, i + 1, entryCount)

parseStts(b, m) ==
  LET mdhdBox == findBox(b, m.start, m.end, FourCC.mdhd)
      mdhdVersion == IF mdhdBox.start < Len(b) THEN At(b, mdhdBox.start)
                     ELSE -1
      timescale == IF mdhdVersion = 1
                   THEN getUint32(b, mdhdBox.start + 20)
                   ELSE getUint32(b, mdhdBox.start + 12)
      minfBox == findBox(b, m.start, m.end, FourCC.minf)
      stblBox == findBox(b, minfBox.start, minfBox.end, FourCC.stbl)
      sttsBox == findBox(b, stblBox.start, stblBox.end, FourCC.stts)
      entryCount == getUint32(b, sttsBox.start + 4)
      list == sttsLoop(b, sttsBox.start + 8, sttsBox.end, 0, entryCount)
  IN
  IF mdhdBox.kind = "throw" THEN Throw
  ELSE IF mdhdBox.kind = "null" THEN NoList
  ELSE IF timescale = RangeError THEN Throw
  ELSE IF timescale = 0 THEN NoList
  ELSE IF minfBox.kind = "throw" THEN Throw
  ELSE IF minfBox.kind = "null" THEN NoList
  ELSE IF stblBox.kind = "throw" THEN Throw
  ELSE IF stblBox.kind = "null" THEN NoList
  ELSE IF sttsBox.kind = "throw" THEN Throw
  ELSE IF sttsBox.kind = "null" THEN NoList
  ELSE IF entryCount = RangeError THEN Throw
  ELSE IF list = <<>> THEN NoList
  ELSE [kind |-> "list", num |-> list, den |-> timescale]

\* The while loop of parseFrameDurations from trakStart.
RECURSIVE trakLoop(_, _, _)
trakLoop(b, trakStart, moovEnd) ==
  IF trakStart >= moovEnd THEN NoList
  ELSE
    LET trakBox == findBox(b, trakStart, moovEnd, FourCC.trak)
        mdiaBox == findBox(b, trakBox.start, trakBox.end, FourCC.mdia)
        hdlrBox == findBox(b, mdiaBox.start, mdiaBox.end, FourCC.hdlr)
    IN
    IF trakBox.kind = "throw" THEN Throw
    ELSE IF trakBox.kind = "null" THEN NoList
    ELSE IF mdiaBox.kind = "throw" THEN Throw
    ELSE IF mdiaBox.kind = "null" THEN trakLoop(b, trakBox.end, moovEnd)
    ELSE IF hdlrBox.kind = "throw" THEN Throw
    ELSE IF hdlrBox.kind = "box" /\ readAscii(b, hdlrBox.start + 8, 4) = FourCC.vide
    THEN parseStts(b, mdiaBox)
    ELSE trakLoop(b, trakBox.end, moovEnd)

parseFrameDurations(b) ==
  LET moovBox == findBox(b, 0, Len(b), FourCC.moov) IN
  IF moovBox.kind = "throw" THEN Throw
  ELSE IF moovBox.kind = "null" THEN NoList
  ELSE trakLoop(b, moovBox.start, moovBox.end)

\* ---- extractTelemetry: frame times ----
Min(a, b) == IF a <= b THEN a ELSE b
Max(a, b) == IF a >= b THEN a ELSE b

\* frames.reduce((m, f) => Math.min(m, f.frameSeqNo), Infinity)
minSeqOf(fs) ==
  CHOOSE m \in {fs[i].frameSeqNo : i \in 1..Len(fs)} :
    \A i \in 1..Len(fs) : m <= fs[i].frameSeqNo

\* cumulative[k]: the first k durations added up.
RECURSIVE cumulative(_, _)
cumulative(num, k) == IF k = 0 THEN 0 ELSE cumulative(num, k - 1) + num[k]

\* The stts mapping wrapping around at the end of the table.
timeOf_Wraps(f, minSeq, num) ==
  cumulative(num, (f.frameSeqNo - minSeq) % Len(num))

\* The stts mapping clamped to the end of the table instead of to its last
\* sample.
timeOf_ClampEnd(f, minSeq, num) ==
  cumulative(num, Max(0, Min(f.frameSeqNo - minSeq, Len(num))))

\* The stts mapping of one frame: cumulative[max(0, min(rel, n - 1))].
timeOf(f, minSeq, num) ==
  LET relIdx == Min(f.frameSeqNo - minSeq, Len(num) - 1) IN
  cumulative(num, Max(0, relIdx))

FPS == 36

\* The fallback at 30 frames a second, over the same denominator.
fallbackTime_30(f, minSeq) == ((f.frameSeqNo - minSeq) * 1000 * 6) \div 5

\* The fallback mapping of one frame: (seq - minSeq) * (1000 / 36), as a
\* numerator over FPS.
fallbackTime(f, minSeq) == (f.frameSeqNo - minSeq) * 1000

mapFrames(fs, d) ==
  IF d.kind = "list" /\ Len(d.num) > 0
  THEN [kind |-> "list", den |-> d.den,
        num |-> [i \in 1..Len(fs) |-> timeOf(fs[i], minSeqOf(fs), d.num)]]
  ELSE [kind |-> "list", den |-> FPS,
        num |-> [i \in 1..Len(fs) |-> fallbackTime(fs[i], minSeqOf(fs))]]

\* ---- the files ----
\* A file is an mdat box holding the NAL units of clip.nals, followed by
\* what clip.moov describes.
Box(type, body) == U32B(8 + Len(body)) \o type \o body

Varint(n) == IF n < 128 THEN <<n>> ELSE <<128 + (n % 128), n \div 128>>

Proto(seq) == <<FRAME_SEQ_NO * 8>> \o Varint(seq)

\* Field no of a message as the recorder writes it: the tag (wire type 0,
\* 5 or 1) and a value other than the default; frameSeqNo is seq.
FieldBytes(no, seq) ==
  IF no = FRAME_SEQ_NO THEN Proto(seq)
  ELSE IF Schema[no].type = "float" THEN <<no * 8 + 5, 0, 0, 128, 63>>
  ELSE IF Schema[no].type = "double"
  THEN <<no * 8 + 1, 0, 0, 0, 0, 0, 0, 240, 63>>
  ELSE <<no * 8, 1>>

\* A message holding the fields whose numbers are in S, from number no on.
RECURSIVE ProtoFields(_, _, _)
ProtoFields(S, seq, no) ==
  IF no > Len(Schema) THEN <<>>
  ELSE (IF no \in S THEN FieldBytes(no, seq) ELSE <<>>)
         \o ProtoFields(S, seq, no + 1)

\* The emulation prevention of the H.264 encoder: 0x03 goes in after two
\* zero bytes that a byte of 3 or less follows.
RECURSIVE Escape(_, _, _)
Escape(p, i, zeros) ==
  IF i > Len(p) THEN <<>>
  ELSE IF zeros >= 2 /\ p[i] <= 3
  THEN <<3, p[i]>> \o Escape(p, i + 1, IF p[i] = 0 THEN 1 ELSE 0)
  ELSE <<p[i]>> \o Escape(p, i + 1, IF p[i] = 0 THEN zeros + 1 ELSE 0)

\* sei: NAL header 6, payload type 5, a size byte, marks marker bytes, the
\* signature, the payload, the trailing byte.  full: a message with every
\* field.  bad: a message cut off inside a varint.  nosig: the marker run
\* is not followed by the signature.  video: a slice NAL.
NalBody(n) ==
  IF n.kind = "sei"
  THEN <<6, 5, 16>> \o Repeat(MARKER, n.marks) \o <<SIGNATURE>>
         \o Proto(n.seq) \o <<128>>
  ELSE IF n.kind = "full"
  THEN <<6, 5, 16>> \o Repeat(MARKER, n.marks) \o <<SIGNATURE>>
         \o Escape(ProtoFields(n.fields, n.seq, 1), 1, 0) \o <<128>>
  ELSE IF n.kind = "bad"
  THEN <<6, 5, 16>> \o Repeat(MARKER, n.marks) \o <<SIGNATURE>>
         \o <<FRAME_SEQ_NO * 8, 232>> \o <<128>>
  ELSE IF n.kind = "nosig"
  THEN <<6, 5, 16>> \o Repeat(MARKER, n.marks) \o <<0>>
         \o Proto(n.seq) \o <<128>>
  ELSE <<101, 136, 132, 0>>

Nal(n) == U32B(Len(NalBody(n))) \o NalBody(n)

RECURSIVE NalBytes(_)
NalBytes(ns) == IF ns = <<>> THEN <<>> ELSE Nal(Head(ns)) \o NalBytes(Tail(ns))

RECURSIVE SttsEntries(_)
SttsEntries(es) ==
  IF es = <<>> THEN <<>>
  ELSE U32B(Head(es).count) \o U32B(Head(es).delta) \o SttsEntries(Tail(es))

RECURSIVE TotalTicks(_)
TotalTicks(es) ==
  IF es = <<>> THEN 0 ELSE Head(es).count * Head(es).delta + TotalTicks(Tail(es))

HdlrBox(handler) == Box(FourCC.hdlr, U32B(0) \o U32B(0) \o handler \o Repeat(0, 13))

MdhdBox(m) ==
  IF m.version = 1
  THEN Box(FourCC.mdhd, <<1, 0, 0, 0>> \o Repeat(0, 16) \o U32B(m.timescale)
                   \o U32B(0) \o U32B(TotalTicks(m.entries)) \o Repeat(0, 4))
  ELSE Box(FourCC.mdhd, <<0, 0, 0, 0>> \o Repeat(0, 8) \o U32B(m.timescale)
                   \o U32B(TotalTicks(m.entries)) \o Repeat(0, 4))

SttsBox(m) == Box(FourCC.stts, U32B(0) \o U32B(Len(m.entries)) \o SttsEntries(m.entries))

MinfBox(m) ==
  IF m.layout = "noMinf" THEN Box(FourCC.free, SttsBox(m))
  ELSE IF m.layout = "noStbl" THEN Box(FourCC.minf, Box(FourCC.free, SttsBox(m)))
  ELSE IF m.layout = "noStts" THEN Box(FourCC.minf, Box(FourCC.stbl, Box(FourCC.free, <<>>)))
  ELSE IF m.layout = "shortStts" THEN Box(FourCC.minf, Box(FourCC.stbl, Box(FourCC.stts, <<>>)))
  ELSE Box(FourCC.minf, Box(FourCC.stbl, SttsBox(m)))

AudioTrak ==
  Box(FourCC.trak, Box(FourCC.mdia, HdlrBox(FourCC.soun)
      \o Box(FourCC.mdhd, <<0, 0, 0, 0>> \o Repeat(0, 8) \o U32B(48000) \o U32B(1024) \o Repeat(0, 4))
      \o Box(FourCC.minf, Box(FourCC.stbl, Box(FourCC.stts, U32B(0) \o U32B(1) \o U32B(1) \o U32B(1024))))))

VideoTrak(m) ==
  IF m.layout = "noMdhd"
  THEN Box(FourCC.trak, Box(FourCC.mdia, HdlrBox(FourCC.vide) \o MinfBox(m)))
  ELSE IF m.layout = "shortMdhd"
  THEN Box(FourCC.trak, Box(FourCC.mdia, HdlrBox(FourCC.vide) \o MinfBox(m) \o Box(FourCC.mdhd, <<0, 0, 0, 0>>)))
  ELSE IF m.layout = "shortHdlr"
  THEN Box(FourCC.trak, Box(FourCC.mdia, MdhdBox(m) \o MinfBox(m) \o Box(FourCC.hdlr, U32B(0))))
  ELSE Box(FourCC.trak, Box(FourCC.mdia, HdlrBox(FourCC.vide) \o MdhdBox(m) \o MinfBox(m)))

MoovBytes(m) ==
  IF m.layout \in {"none", "empty", "extFirst"} THEN <<>>
  ELSE IF m.layout = "extAtEnd" THEN U32B(1) \o FourCC.free
  ELSE IF m.layout = "audioOnly" THEN Box(FourCC.moov, AudioTrak)
  ELSE IF m.layout = "audioFirst" THEN Box(FourCC.moov, AudioTrak \o VideoTrak(m))
  ELSE Box(FourCC.moov, VideoTrak(m))

\* empty: a file of no bytes.  noMdat: a file without an mdat box.
\* extFirst: a file cut off inside the extended header of its first box.
FileBytes(c) ==
  IF c.moov.layout = "empty" THEN <<>>
  ELSE IF c.moov.layout = "noMdat"
  THEN Box(FourCC.free, NalBytes(c.nals)) \o Box(FourCC.moov, VideoTrak(c.moov))
  ELSE IF c.moov.layout = "extFirst" THEN U32B(1) \o FourCC.free
  ELSE Box(FourCC.mdat, NalBytes(c.nals)) \o MoovBytes(c.moov)

\* Frame sequence numbers: absolute, two-byte varints.
SeqNos == {1000, 1001, 1002, 1000 + MaxSeqGap}

NalDescs ==
  {[kind |-> "sei", seq |-> q, marks |-> 1] : q \in SeqNos}
    \cup {[kind |-> "sei", seq |-> 1001, marks |-> 3],
          [kind |-> "sei", seq |-> 1001, marks |-> 0],
          [kind |-> "nosig", seq |-> 1001, marks |-> 2],
          [kind |-> "bad", seq |-> 1001, marks |-> 1],
          [kind |-> "video", seq |-> 0, marks |-> 0]}

Tables ==
  {[timescale |-> 90000, entries |-> <<[count |-> 3, delta |-> 3000]>>],
   [timescale |-> 1000, entries |-> <<[count |-> 2, delta |-> 33], [count |-> 1, delta |-> 34]>>],
   [timescale |-> 1000, entries |-> <<>>],
   [timescale |-> 1000, entries |-> <<[count |-> 0, delta |-> 33]>>],
   [timescale |-> 0, entries |-> <<[count |-> 2, delta |-> 33]>>]}

MoovDescs ==
  {[layout |-> l, version |-> v, timescale |-> t.timescale, entries |-> t.entries] :
     l \in {"video", "audioFirst"}, v \in {0, 1}, t \in Tables}
    \cup {[layout |-> l, version |-> 0, timescale |-> 1000,
           entries |-> <<[count |-> 2, delta |-> 33]>>] :
            l \in {"none", "extAtEnd", "audioOnly", "noMdhd", "noMinf",
                   "noStbl", "noStts", "shortMdhd", "shortStts", "shortHdlr"}}

\* 100 samples of 3000 ticks at 90000 ticks a second, frames 1000..1004.
ExampleClip ==
  [nals |-> [i \in 1..5 |-> [kind |-> "sei", seq |-> 999 + i, marks |-> 1]],
   moov |-> [layout |-> "video", version |-> 0, timescale |-> 90000,
             entries |-> <<[count |-> 100, delta |-> 3000]>>]]

\* full: a message with every field between a message that does not
\* decode and one with the sequence number alone.  noMdat: files in which
\* findMdat finds no box.
Clips ==
  LET moovOf(l) == [layout |-> l, version |-> 0, timescale |-> 1000,
                    entries |-> <<[count |-> 2, delta |-> 33]>>]
      full ==
        [nals |-> << [kind |-> "bad", seq |-> 1001, marks |-> 1],
                     [kind |-> "full", seq |-> 1002, marks |-> 1,
                      fields |-> DOMAIN Schema],
                     [kind |-> "sei", seq |-> 1000, marks |-> 1] >>,
         moov |-> moovOf("video")]
      noMdat ==
        {[nals |-> ns, moov |-> moovOf(l)] :
           ns \in {<<>>, <<[kind |-> "sei", seq |-> 1000, marks |-> 1]>>},
           l \in {"empty", "noMdat", "extFirst"}}
  IN
  {[nals |-> ns, moov |-> m] :
     ns \in UNION {[1..n -> NalDescs] : n \in 0..MaxNals}, m \in MoovDescs}
    \cup {ExampleClip, full} \cup noMdat

EngineIdle ==
  /\ pc = [c \in Calls |-> "idle"]
  /\ key = [c \in Calls |-> 0]
  /\ awaiting = [c \in Calls |-> 0]
  /\ res = [c \in Calls |-> "none"]
  /\ activeJobs = [k \in Keys |-> 0]
  /\ activeCount = 0
  /\ waitQueue = <<>>
  /\ job = [c \in Calls |-> "none"]
  /\ outcome = [c \in Calls |-> "none"]
  /\ exitKind = [c \in Calls |-> "none"]
  /\ nchunks = [c \in Calls |-> 0]
  /\ content = [c \in Calls |-> NoFile]
  /\ manifest = [k \in Keys |-> NoFile]
  /\ dir = [k \in Keys |-> FALSE]

InitSei ==
  /\ EngineIdle
  /\ SlotsIdle
  /\ RouteIdle
  /\ boxArgs = [start |-> 0, end |-> 0, name |-> <<>>]
  /\ boxRes = [kind |-> "none", start |-> 0, end |-> 0, size |-> 0, read |-> 0]
  /\ buf = <<>>
  /\ clip \in Clips
  /\ seiPc = "readFile"
  /\ frames = <<>>
  /\ durations = NoList
  /\ frameTimesMs = NoList
  /\ RestIdle

\* await readFile(filePath)
ReadFile ==
  /\ seiPc = "readFile"
  /\ buf' = FileBytes(clip)
  /\ seiPc' = "parse"
  /\ UNCHANGED <<clip, frames, durations, frameTimesMs, boxArgs, boxRes,
                 slotVars, routeVars, engineVars, restVars, activeCount, waitQueue, job>>

\* The rest of extractTelemetry, which has no await: seiPc "null" when it
\* returns null, "done" when it returns { frameTimesMs, frames }, "thrown"
\* when an exception leaves it.
Parse ==
  /\ seiPc = "parse"
  /\ LET sei == extractSeiMessages(buf)
         d == parseFrameDurations(buf)
     IN
     IF sei.kind = "throw"
     THEN /\ seiPc' = "thrown"
          /\ UNCHANGED <<frames, durations, frameTimesMs>>
     ELSE IF Len(sei.frames) = 0
     THEN /\ seiPc' = "null"
          /\ UNCHANGED <<frames, durations, frameTimesMs>>
     ELSE IF d.kind = "throw"
     THEN /\ seiPc' = "thrown"
          /\ frames' = sei.frames
          /\ UNCHANGED <<durations, frameTimesMs>>
     ELSE /\ seiPc' = "done"
          /\ frames' = sei.frames
          /\ durations' = d
          /\ frameTimesMs' = mapFrames(sei.frames, d)
  /\ UNCHANGED <<clip, buf, boxArgs, boxRes, slotVars, routeVars,
                 engineVars, restVars, activeCount, waitQueue, job>>

NextSei == ReadFile \/ Parse

SpecSei == InitSei /\ [][NextSei]_vars

\* ---- server/sei.ts: the parser loops, one iteration a step ----
\* boxArgs.start is the loop variable (pos, trakStart, cursor), boxArgs.end
\* the bound of the loop, and boxRes.kind "none" while the loop runs;
\* boxRes.read is the end of the highest byte the loop has looked at.
\* A file whose first box is of the given type, and the bounds findBox
\* returns for it.
LoopInputs(type) ==
  LET LoopWords == {U32B(0), U32B(1), U32B(2), U32B(8), U32B(16),
                    U32B(16777216), FourCC.trak, <<6, 5, 0, 0>>}
  IN {[b |-> b, box |-> findBox(b, 0, Len(b), type)] :
        b \in {U32B(sz) \o type \o Flatten(ws) :
                 sz \in {0, 12, 16, 20},
                 ws \in UNION {[1..n -> LoopWords] :
                                 n \in 1..MaxBoxWords}}}

InitLoops ==
  /\ EngineIdle
  /\ SlotsIdle
  /\ RouteIdle
  /\ SeiIdle
  /\ RestIdle
  /\ \/ /\ buf \in BoxBuffers
        /\ boxArgs = [start |-> 0, end |-> Len(buf), name |-> FourCC.mdat,
                      loop |-> "findBox"]
     \/ \E in \in LoopInputs(FourCC.moov) :
          /\ in.box.kind = "box"
          /\ buf = in.b
          /\ boxArgs = [start |-> in.box.start, end |-> in.box.end,
                        name |-> FourCC.trak, loop |-> "trak"]
     \/ \E in \in LoopInputs(FourCC.mdat) :
          /\ in.box.kind = "box"
          /\ buf = in.b
          /\ boxArgs = [start |-> in.box.start,
                        end |-> in.box.start + in.box.size,
                        name |-> FourCC.mdat, loop |-> "nal"]
  /\ boxRes = [kind |-> "none", start |-> 0, end |-> 0, size |-> 0,
               read |-> boxArgs.start]

LoopFrame ==
  UNCHANGED <<buf, slotVars, routeVars, seiVars, engineVars, restVars,
              activeCount, waitQueue, job>>

\* The iteration of findBox that goes on after a box of 0 to 7 bytes.
FindBoxStep_NoMinimum ==
  /\ boxArgs.loop = "findBox"
  /\ boxRes.kind = "none"
  /\ LET pos == boxArgs.start
         end == boxArgs.end
         size32 == getUint32(buf, pos)
         high == getUint32(buf, pos + 8)
         low == getUint32(buf, pos + 12)
         size == IF size32 = 1 THEN (IF high = 0 THEN low ELSE Huge)
                 ELSE IF size32 = 0 THEN end - pos
                 ELSE size32
         seen == IF size32 = 1 THEN pos + 16 ELSE pos + 8
         rd == IF seen > boxRes.read THEN seen ELSE boxRes.read
     IN
     IF pos + 8 > end
     THEN boxRes' = [boxRes EXCEPT !.kind = "null"] /\ UNCHANGED boxArgs
     ELSE IF size32 = RangeError
             \/ (size32 = 1 /\ (high = RangeError \/ low = RangeError))
     THEN boxRes' = [boxRes EXCEPT !.kind = "throw", !.read = rd]
          /\ UNCHANGED boxArgs
     ELSE IF pos + size > end
     THEN boxRes' = [boxRes EXCEPT !.kind = "null", !.read = rd]
          /\ UNCHANGED boxArgs
     ELSE IF readAscii(buf, pos + 4, 4) = boxArgs.name
     THEN boxRes' = [boxRes EXCEPT !.kind = "box", !.read = rd]
          /\ UNCHANGED boxArgs
     ELSE /\ boxArgs' = [boxArgs EXCEPT !.start = pos + size]
          /\ boxRes' = [boxRes EXCEPT !.read = rd]
  /\ LoopFrame

\* One iteration of the for loop of findBox: the test pos + 8 <= end, the
\* body, and pos += size.
FindBoxStep ==
  /\ boxArgs.loop = "findBox"
  /\ boxRes.kind = "none"
  /\ LET pos == boxArgs.start
         end == boxArgs.end
         size32 == getUint32(buf, pos)
         high == getUint32(buf, pos + 8)
         low == getUint32(buf, pos + 12)
         size == IF size32 = 1 THEN (IF high = 0 THEN low ELSE Huge)
                 ELSE IF size32 = 0 THEN end - pos
                 ELSE size32
         seen == IF size32 = 1 THEN pos + 16 ELSE pos + 8
         rd == IF seen > boxRes.read THEN seen ELSE boxRes.read
     IN
     IF pos + 8 > end
     THEN boxRes' = [boxRes EXCEPT !.kind = "null"] /\ UNCHANGED boxArgs
     ELSE IF size32 = RangeError
             \/ (size32 = 1 /\ (high = RangeError \/ low = RangeError))
     THEN boxRes' = [boxRes EXCEPT !.kind = "throw", !.read = rd]
          /\ UNCHANGED boxArgs
     ELSE IF size < 8 \/ pos + size > end
     THEN boxRes' = [boxRes EXCEPT !.kind = "null", !.read = rd]
          /\ UNCHANGED boxArgs
     ELSE IF readAscii(buf, pos + 4, 4) = boxArgs.name
     THEN boxRes' = [boxRes EXCEPT !.kind = "box", !.read = rd]
          /\ UNCHANGED boxArgs
     ELSE /\ boxArgs' = [boxArgs EXCEPT !.start = pos + size]
          /\ boxRes' = [boxRes EXCEPT !.read = rd]
  /\ LoopFrame

\* One iteration of the while loop of parseFrameDurations: kind "stts"
\* when it returns this.parseStts(mdia).
TrakStep ==
  /\ boxArgs.loop = "trak"
  /\ boxRes.kind = "none"
  /\ LET trakStart == boxArgs.start
         trakBox == findBox(buf, trakStart, boxArgs.end, FourCC.trak)
         mdiaBox == findBox(buf, trakBox.start, trakBox.end, FourCC.mdia)
         hdlrBox == findBox(buf, mdiaBox.start, mdiaBox.end, FourCC.hdlr)
     IN
     IF trakStart >= boxArgs.end
     THEN boxRes' = [boxRes EXCEPT !.kind = "null"] /\ UNCHANGED boxArgs
     ELSE IF trakBox.kind \in {"throw", "null"}
     THEN boxRes' = [boxRes EXCEPT !.kind = trakBox.kind]
          /\ UNCHANGED boxArgs
     ELSE IF mdiaBox.kind = "throw"
             \/ (mdiaBox.kind = "box" /\ hdlrBox.kind = "throw")
     THEN boxRes' = [boxRes EXCEPT !.kind = "throw"] /\ UNCHANGED boxArgs
     ELSE IF /\ mdiaBox.kind = "box"
             /\ hdlrBox.kind = "box"
             /\ readAscii(buf, hdlrBox.start + 8, 4) = FourCC.vide
     THEN boxRes' = [boxRes EXCEPT !.kind = "stts"] /\ UNCHANGED boxArgs
     ELSE /\ boxArgs' = [boxArgs EXCEPT !.start = trakBox.end]
          /\ boxRes' = [boxRes EXCEPT !.read = trakBox.end]
  /\ LoopFrame

\* One iteration of the while loop of extractSeiMessages.  The bytes of a
\* NAL unit the loop looks at are its first two, and all of it when they
\* say SEI and it is handed to decodeSei.
NalStep ==
  /\ boxArgs.loop = "nal"
  /\ boxRes.kind = "none"
  /\ LET cursor == boxArgs.start
         nalSize == getUint32(buf, cursor)
         c == cursor + 4
         isSei == At(buf, c) % 32 = 6 /\ At(buf, c + 1) = 5
         seen == IF nalSize < 2 \/ c + nalSize > Len(buf) THEN c
                 ELSE IF isSei THEN c + nalSize
                 ELSE c + 2
     IN
     IF cursor + 4 > boxArgs.end
     THEN boxRes' = [boxRes EXCEPT !.kind = "null"] /\ UNCHANGED boxArgs
     ELSE IF nalSize = RangeError
     THEN boxRes' = [boxRes EXCEPT !.kind = "throw"] /\ UNCHANGED boxArgs
     ELSE /\ boxArgs' = [boxArgs EXCEPT
                           !.start = c + (IF nalSize > 0 THEN nalSize ELSE 0)]
          /\ boxRes' = [boxRes EXCEPT
                          !.read = IF seen > @ THEN seen ELSE @]
  /\ LoopFrame

NextLoops == FindBoxStep \/ TrakStep \/ NalStep

\* The loops run in one turn of the event loop: an iteration that can be
\* taken is taken.
SpecLoops == InitLoops /\ [][NextLoops]_vars /\ WF_vars(NextLoops)

\* ---- functions called on their own ----
\* Payload bytes: zero, the stuffing byte and one other value.
StripInputs == UNION {[1..n -> {0, 1, 3}] : n \in 0..MaxStripLen}

\* path.join on segments that hold no "." and no "/" of their own: the empty
\* segments are dropped and the rest joined by "/".  A string is the
\* sequence of its characters.
pathJoin(parts) ==
  LET kept == SelectSeq(parts, LAMBDA s : Len(s) > 0)
      RECURSIVE from(_)
      from(i) == IF i > Len(kept) THEN <<>>
                 ELSE (IF i = 1 THEN <<>> ELSE <<"/">>) \o kept[i] \o from(i + 1)
  IN IF Len(kept) = 0 THEN <<".">> ELSE from(1)

hlsCacheDir_NoLabel(HLS_BITRATE, type, eventId, segment, camera) ==
  pathJoin(<<pathJoin(<<(<<"/", "c">>), (<<"h", "l", "s">>)>>),
             type, eventId, segment, camera>>)

\* HLS_BITRATE is the environment's value or "", CACHE_DIR is "/c".
hlsCacheDir(HLS_BITRATE, type, eventId, segment, camera) ==
  LET HLS_CACHE_DIR == pathJoin(<<(<<"/", "c">>), (<<"h", "l", "s">>)>>)
      HLS_ENCODING_LABEL == IF Len(HLS_BITRATE) > 0 THEN HLS_BITRATE
                            ELSE <<"c", "o", "p", "y">>
  IN pathJoin(<<HLS_CACHE_DIR, HLS_ENCODING_LABEL,
                type, eventId, segment, camera>>)

hlsManifestPath(HLS_BITRATE, type, eventId, segment, camera) ==
  pathJoin(<<hlsCacheDir(HLS_BITRATE, type, eventId, segment, camera),
             (<<"s", "t", "r", "e", "a", "m", ".", "m", "3", "u", "8">>)>>)

\* ---- the folder scan ----
\* A name in a directory listing is [ts, camera, ext]: "<ts>-<camera>.<ext>"
\* when camera is not empty, "<ts>" alone otherwise.  ts is <<day, hh, mm, ss>>
\* for "2025-06-DD_HH-MM-SS", <<day>> for "2025-06-DD" and <<>> for a name
\* that starts with neither (camera then holds the name).
CLIP_REGEX(file) == Len(file.ts) = 4 /\ file.camera # "" /\ file.ext = "mp4"

CAMERA_ORDER_Alphabetical ==
  <<"back", "front", "left_pillar", "left_repeater", "right_pillar",
    "right_repeater">>

CAMERA_ORDER ==
  <<"front", "left_repeater", "right_repeater", "back", "left_pillar",
    "right_pillar">>

SESSION_GAP_THRESHOLD == 120

\* Array.prototype.indexOf, zero-based, -1 when absent.
indexOf(arr, x) ==
  IF \E i \in 1..Len(arr) : arr[i] = x
  THEN (CHOOSE i \in 1..Len(arr) :
          arr[i] = x /\ \A j \in 1..(i - 1) : arr[j] # x) - 1
  ELSE -1

\* Array.prototype.sort with the comparator rank(a) - rank(b), ranks[i]
\* being the rank of s[i]: stable.
sortBy(s, ranks) ==
  LET RECURSIVE ins(_, _)
      ins(t, n) ==
        IF Len(t) = 0 THEN <<n>>
        ELSE IF ranks[t[Len(t)]] <= ranks[n] THEN Append(t, n)
        ELSE Append(ins(SubSeq(t, 1, Len(t) - 1), n), t[Len(t)])
      RECURSIVE srt(_)
      srt(n) == IF n = 0 THEN <<>> ELSE ins(srt(n - 1), n)
      order == srt(Len(s))
  IN [i \in 1..Len(s) |-> s[order[i]]]

\* The order localeCompare gives to two timestamps: the fields are of fixed
\* width, so the strings compare as the field tuples do.
tsRank(ts) == ((ts[1] * 100 + ts[2]) * 100 + ts[3]) * 100 + ts[4]

\* new Date("2025-06-DDTHH:MM:SS") in a zone without a clock change in the
\* month, in seconds; 0 for a string that is no time of day.
segmentTimestampToEpoch(ts) ==
  IF Len(ts) = 4 /\ ts[1] \in 1..30 /\ ts[2] \in 0..23
       /\ ts[3] \in 0..59 /\ ts[4] \in 0..59
  THEN 1748736000 + (ts[1] - 1) * 86400 + ts[2] * 3600 + ts[3] * 60 + ts[4]
  ELSE 0

\* The loops that fill segmentMap: a Map in insertion order whose values
\* hold a Set of cameras in insertion order.
RECURSIVE addClips(_, _, _)
addClips(segmentMap, files, subfolder) ==
  IF Len(files) = 0 THEN segmentMap
  ELSE LET file == Head(files)
           has == \E i \in 1..Len(segmentMap) :
                    segmentMap[i].timestamp = file.ts
           made == IF has THEN segmentMap
                   ELSE Append(segmentMap,
                               [timestamp |-> file.ts, cameras |-> <<>>,
                                subfolder |-> subfolder])
           added == [i \in 1..Len(made) |->
                      IF made[i].timestamp = file.ts
                           /\ \A j \in 1..Len(made[i].cameras) :
                                 made[i].cameras[j] # file.camera
                      THEN [made[i] EXCEPT
                              !.cameras = Append(@, file.camera)]
                      ELSE made[i]]
       IN addClips(IF CLIP_REGEX(file) THEN added ELSE segmentMap,
                   Tail(files), subfolder)

\* sorted.map / session.map: the clips of a run of sorted segments.
toClips(session) ==
  [i \in 1..Len(session) |->
     LET cur == segmentTimestampToEpoch(session[i].timestamp)
         next == segmentTimestampToEpoch(session[i + 1].timestamp)
     IN [timestamp |-> session[i].timestamp,
         cameras |-> sortBy(session[i].cameras,
                            [j \in 1..Len(session[i].cameras) |->
                               indexOf(CAMERA_ORDER, session[i].cameras[j])]),
         durationSec |->
           IF i + 1 <= Len(session) /\ cur > 0 /\ next > 0
                /\ next - cur >= 1 /\ next - cur <= 120
           THEN next - cur ELSE 60,
         subfolder |-> session[i].subfolder]]

\* scanEventFolder: <<>> for null, else the one event.
scanEventFolder(type, folder, files) ==
  LET segmentMap == addClips(<<>>, files, <<>>)
      sorted == sortBy(segmentMap, [i \in 1..Len(segmentMap) |->
                                      tsRank(segmentMap[i].timestamp)])
  IN IF Len(segmentMap) = 0 THEN <<>>
     ELSE <<[id |-> folder.ts, type |-> type, clips |-> toClips(sorted)]>>

sessionBreak_AtThreshold(prevEpoch, curEpoch) ==
  prevEpoch > 0 /\ curEpoch > 0
    /\ curEpoch - prevEpoch >= SESSION_GAP_THRESHOLD

sessionBreak(prevEpoch, curEpoch) ==
  prevEpoch > 0 /\ curEpoch > 0
    /\ curEpoch - prevEpoch > SESSION_GAP_THRESHOLD

\* scanRecentClips: entries is the listing of RecentClips, sub the listing
\* of each date folder in it.
scanRecentClips(entries, sub) ==
  LET dateFolders ==
        SelectSeq(entries, LAMBDA f : Len(f.ts) = 1 /\ f.camera = ""
                                        /\ f.ext = "")
      RECURSIVE inFolders(_, _)
      inFolders(map, i) ==
        IF i > Len(dateFolders) THEN map
        ELSE inFolders(addClips(map, sub, dateFolders[i].ts), i + 1)
      segmentMap == inFolders(addClips(<<>>, entries, <<>>), 1)
      sorted == sortBy(segmentMap, [i \in 1..Len(segmentMap) |->
                                      tsRank(segmentMap[i].timestamp)])
      RECURSIVE split(_, _, _)
      split(sessions, current, i) ==
        IF i > Len(sorted) THEN Append(sessions, current)
        ELSE IF sessionBreak(
                  segmentTimestampToEpoch(sorted[i - 1].timestamp),
                  segmentTimestampToEpoch(sorted[i].timestamp))
        THEN split(Append(sessions, current), <<sorted[i]>>, i + 1)
        ELSE split(sessions, Append(current, sorted[i]), i + 1)
      sessions == split(<<>>, <<sorted[1]>>, 2)
  IN IF Len(segmentMap) = 0 THEN <<>>
     ELSE [n \in 1..Len(sessions) |->
             [id |-> sessions[n][1].timestamp, type |-> "RecentClips",
              clips |-> toClips(sessions[n])]]

\* scanTeslacamFolder with SavedClips holding the folders `saved`, each
\* with the listing `files`, and no SentryClips folder.
scanTeslacamFolder(saved, files, entries, sub) ==
  LET folders == SelectSeq(saved, LAMBDA f : Len(f.ts) = 4 /\ f.camera = ""
                                               /\ f.ext = "")
      RECURSIVE scanned(_)
      scanned(i) ==
        IF i > Len(folders) THEN <<>>
        ELSE scanEventFolder("SavedClips", folders[i], files)
               \o scanned(i + 1)
      events == scanned(1) \o scanRecentClips(entries, sub)
  IN sortBy(events, [i \in 1..Len(events) |-> 0 - tsRank(events[i].id)])

\* Names a listing holds: clips of two segments with known and unknown
\* cameras, a clip name with another extension, event.json.
SavedFiles ==
  {[ts |-> t, camera |-> c, ext |-> "mp4"] :
     t \in {<<1, 10, 0, 0>>}, c \in {"front", "back", "x", "y"}}
  \cup {[ts |-> <<1, 9, 59, 0>>, camera |-> c, ext |-> "mp4"] :
          c \in {"right_pillar", "left_repeater"}}
  \cup {[ts |-> <<1, 10, 0, 0>>, camera |-> "front", ext |-> "json"],
        [ts |-> <<>>, camera |-> "event", ext |-> "json"]}

\* Segment times under RecentClips, latest first: 60 s, 120 s across
\* midnight, 121 s and 29 s apart, and one name that is no time of day.
RecentTimes ==
  <<(<<2, 25, 0, 0>>), (<<2, 0, 3, 30>>), (<<2, 0, 3, 1>>), (<<2, 0, 1, 0>>),
    (<<1, 23, 59, 0>>), (<<1, 23, 58, 0>>)>>

\* The listing that holds, latest first, the back and front clips of the
\* segments at `place`.
RECURSIVE listing(_, _, _)
listing(where, place, i) ==
  IF i > Len(RecentTimes) THEN <<>>
  ELSE (IF where[i] = place
        THEN <<[ts |-> RecentTimes[i], camera |-> "back", ext |-> "mp4"],
               [ts |-> RecentTimes[i], camera |-> "front", ext |-> "mp4"]>>
        ELSE <<>>) \o listing(where, place, i + 1)

\* Route parameters pass SAFE_PARAM: non-empty, word characters and hyphens.
SafeParams == {<<"a", "-">>, <<"a", "-", "a", "-">>}

\* parseInt(string) without a radix: leading white space is skipped, then
\* an optional sign, an optional 0x, and the longest run of digits; no
\* digit gives NaN.  zero tells whether the result is 0 or -0.
parseInt(str) ==
  LET Value == [ch \in {"0", "1", "2", "3", "4", "5", "6", "7", "8", "9",
                        "a", "b", "c", "d", "e", "f"} |->
                  CASE ch = "0" -> 0 [] ch = "1" -> 1 [] ch = "2" -> 2
                    [] ch = "3" -> 3 [] ch = "4" -> 4 [] ch = "5" -> 5
                    [] ch = "6" -> 6 [] ch = "7" -> 7 [] ch = "8" -> 8
                    [] ch = "9" -> 9 [] ch = "a" -> 10 [] ch = "b" -> 11
                    [] ch = "c" -> 12 [] ch = "d" -> 13 [] ch = "e" -> 14
                    [] ch = "f" -> 15]
      RECURSIVE skip(_)
      skip(i) == IF i <= Len(str) /\ str[i] = " " THEN skip(i + 1) ELSE i
      at == skip(1)
      signed == at <= Len(str) /\ str[at] \in {"-", "+"}
      neg == signed /\ str[at] = "-"
      num == IF signed THEN at + 1 ELSE at
      hex == num + 1 <= Len(str) /\ str[num] = "0" /\ str[num + 1] = "x"
      radix == IF hex THEN 16 ELSE 10
      first == IF hex THEN num + 2 ELSE num
      IsDigit(i) == /\ i <= Len(str)
                    /\ str[i] \in DOMAIN Value
                    /\ Value[str[i]] < radix
      RECURSIVE digits(_, _)
      digits(i, acc) == IF IsDigit(i)
                        THEN digits(i + 1, acc * radix + Value[str[i]])
                        ELSE acc
  IN IF ~ IsDigit(first) THEN [nan |-> TRUE, value |-> 0]
     ELSE [nan |-> FALSE,
           value |-> IF neg THEN 0 - digits(first, 0) ELSE digits(first, 0)]

\* MAX_CONCURRENT as the module computes it at load time from the
\* environment (env = "unset": no HLS_MAX_CONCURRENT) and the encoder
\* found; NaN, 0 and -0 are the falsy numbers.
MaxConcurrentOf(env, hlsEncoder) ==
  LET DEFAULT_CONCURRENT == IF hlsEncoder = "h264_videotoolbox" THEN 4 ELSE 2
      n == parseInt(IF env = "unset" THEN <<>> ELSE env)
  IN IF n.nan \/ n.value = 0 THEN DEFAULT_CONCURRENT ELSE n.value

InitCalls ==
  /\ EngineIdle
  /\ SlotsIdle
  /\ RouteIdle
  /\ BoxIdle
  /\ SeiIdle
  /\ \/ \E d \in StripInputs :
          call = [fn |-> "stripEmulationBytes", data |-> d]
     \/ \E S \in SUBSET (DOMAIN Schema) :
          call = [fn |-> "decodeSei", fields |-> S,
                  nal |-> NalBody([kind |-> "full", seq |-> 1000,
                                   marks |-> 1, fields |-> S])]
     \/ \E rq \in [1..2 -> [bitrate : {<<>>} \cup SafeParams,
                               type : SafeParams, eventId : SafeParams,
                               segment : SafeParams, camera : SafeParams]] :
          call = [fn |-> "hlsManifestPath", reqs |-> rq]
     \/ \E folder \in {[ts |-> <<1, 10, 0, 0>>, camera |-> "", ext |-> ""],
                        [ts |-> <<>>, camera |-> ".DS_Store", ext |-> ""]} :
          \E n \in 0..MaxFiles :
            \E files \in {f \in [1..n -> SavedFiles] :
                             \A i, j \in 1..n : f[i] = f[j] => i = j} :
              call = [fn |-> "scanTeslacamFolder", saved |-> <<folder>>,
                      files |-> files, entries |-> <<>>, sub |-> <<>>]
     \/ \E where \in [1..Len(RecentTimes) -> {"absent", "flat", "sub"}] :
          call = [fn |-> "scanTeslacamFolder", saved |-> <<>>,
                  files |-> <<>>,
                  entries |->
                    listing(where, "flat", 1)
                      \o (IF \E i \in DOMAIN where : where[i] = "sub"
                          THEN <<[ts |-> <<1>>, camera |-> "", ext |-> ""]>>
                          ELSE <<>>),
                  sub |-> listing(where, "sub", 1)]
     \/ \E env \in {"unset", <<>>, <<"a">>, <<"0">>, <<"-", "0">>,
                     <<"-", "1">>, <<"3">>, <<" ", "4">>, <<"1", "0">>,
                     <<"0", ".", "5">>, <<"2", "x">>, <<"0", "x", "1", "0">>},
             enc \in {"h264_videotoolbox", "libx264"} :
          call = [fn |-> "acquireSlot", env |-> env, hlsEncoder |-> enc]
  /\ ret = [done |-> FALSE]
  /\ TelemIdle
  /\ EventsIdle

Unrelated ==
  UNCHANGED <<call, telemVars, eventVars, slotVars, routeVars, boxVars, seiVars,
              engineVars, activeCount, waitQueue, job>>

\* this.stripEmulationBytes(data)
StripCall ==
  /\ call.fn = "stripEmulationBytes"
  /\ ~ ret.done
  /\ ret' = [done |-> TRUE, bytes |-> stripEmulationBytes(call.data)]
  /\ Unrelated

\* this.decodeSei(nal, SeiMetadata) on a NAL unit whose message holds the
\* fields call.fields.
DecodeSeiCall ==
  /\ call.fn = "decodeSei"
  /\ ~ ret.done
  /\ ret' = [done |-> TRUE, frame |-> decodeSei(call.nal)]
  /\ Unrelated

\* hlsCacheDir and hlsManifestPath for two requests, each under the
\* HLS_BITRATE of the server that takes it.
HlsPathCall ==
  /\ call.fn = "hlsManifestPath"
  /\ ~ ret.done
  /\ ret' = [done |-> TRUE,
             dir |-> [i \in 1..2 |->
                        hlsCacheDir(call.reqs[i].bitrate, call.reqs[i].type,
                                    call.reqs[i].eventId, call.reqs[i].segment,
                                    call.reqs[i].camera)],
             manifest |-> [i \in 1..2 |->
                        hlsManifestPath(call.reqs[i].bitrate, call.reqs[i].type,
                                    call.reqs[i].eventId, call.reqs[i].segment,
                                    call.reqs[i].camera)]]
  /\ Unrelated

\* scanTeslacamFolder(storage)
ScanCall ==
  /\ call.fn = "scanTeslacamFolder"
  /\ ~ ret.done
  /\ ret' = [done |-> TRUE,
             events |-> scanTeslacamFolder(call.saved, call.files,
                                           call.entries, call.sub)]
  /\ Unrelated

\* The first acquireSlot() after the module has been loaded: activeCount
\* is 0 and the queue is empty; the caller goes on at once or is queued.
LimitCall ==
  /\ call.fn = "acquireSlot"
  /\ ~ ret.done
  /\ LET limit == MaxConcurrentOf(call.env, call.hlsEncoder)
     IN ret' = [done |-> TRUE, MAX_CONCURRENT |-> limit,
                activeCount |-> IF 0 < limit THEN 1 ELSE 0,
                waitQueue |-> IF 0 < limit THEN 0 ELSE 1]
  /\ Unrelated

NextCalls ==
  \/ LimitCall
  \/ StripCall
  \/ DecodeSeiCall
  \/ HlsPathCall
  \/ ScanCall

SpecCalls == InitCalls /\ [][NextCalls]_vars

\* ---- the telemetry route and its cache ----
\* GET /api/video/:type/:eventId/:segment/telemetry.  A request slot takes
\* a new request when its last one has been answered.
CacheKeys(c) == {c[i].key : i \in 1..Len(c)}

\* Map.set(k, value): an entry that is present keeps its place.
MapSet(c, k, value) ==
  IF k \in CacheKeys(c)
  THEN [i \in 1..Len(c) |-> IF c[i].key = k
                            THEN [key |-> k, hasSei |-> value] ELSE c[i]]
  ELSE Append(c, [key |-> k, hasSei |-> value])

\* telemetryCacheSet deleting the entry inserted last.
telemetryCacheSet_Newest(k, value) ==
  IF Len(telemetryCache) >= TELEMETRY_CACHE_MAX
  THEN /\ oldest' = telemetryCache[Len(telemetryCache)].key
       /\ telemetryCache' =
            MapSet(SubSeq(telemetryCache, 1, Len(telemetryCache) - 1),
                   k, value)
  ELSE /\ telemetryCache' = MapSet(telemetryCache, k, value)
       /\ UNCHANGED oldest

telemetryCacheSet(k, value) ==
  IF Len(telemetryCache) >= TELEMETRY_CACHE_MAX
  THEN /\ oldest' = Head(telemetryCache).key
       /\ telemetryCache' = MapSet(Tail(telemetryCache), k, value)
  ELSE /\ telemetryCache' = MapSet(telemetryCache, k, value)
       /\ UNCHANGED oldest

InitTelemetry ==
  /\ EngineIdle
  /\ SlotsIdle
  /\ RouteIdle
  /\ BoxIdle
  /\ SeiIdle
  /\ PureIdle
  /\ TelemIdle
  /\ EventsIdle

\* The handler up to its first await: validateParams, the cache lookup.
TelemLookup(r, k, valid) ==
  /\ telem[r].pc \in {"idle", "done", "caught"}
  /\ IF ~ valid
     THEN telem' = [telem EXCEPT ![r] = [pc |-> "done", key |-> 0,
                                         answer |-> "400"]]
     ELSE IF k \in CacheKeys(telemetryCache)
     THEN telem' = [telem EXCEPT ![r] = [pc |-> "done", key |-> k,
                                         answer |-> "cached"]]
     ELSE telem' = [telem EXCEPT ![r] = [pc |-> "events", key |-> k,
                                         answer |-> "none"]]
  /\ UNCHANGED <<telemetryCache, oldest>>
  /\ UNCHANGED <<pureVars, eventVars, slotVars, routeVars, boxVars, seiVars, engineVars,
                 activeCount, waitQueue, job>>

\* await getEvents() and the lookup of event, clip and camera.
TelemEvents(r, found) ==
  /\ telem[r].pc = "events"
  /\ IF found THEN telem' = [telem EXCEPT ![r].pc = "localPath"]
     ELSE telem' = [telem EXCEPT ![r].pc = "done", ![r].answer = "404"]
  /\ UNCHANGED <<telemetryCache, oldest>>
  /\ UNCHANGED <<pureVars, eventVars, slotVars, routeVars, boxVars, seiVars, engineVars,
                 activeCount, waitQueue, job>>

\* await storage.getLocalPath(videoRelPath); an exception is answered
\* NO_SEI in the catch block (position "caught").
TelemLocalPath(r, ok) ==
  /\ telem[r].pc = "localPath"
  /\ IF ok THEN telem' = [telem EXCEPT ![r].pc = "extract"]
     ELSE telem' = [telem EXCEPT ![r].pc = "caught", ![r].answer = "noSei"]
  /\ UNCHANGED <<telemetryCache, oldest>>
  /\ UNCHANGED <<pureVars, eventVars, slotVars, routeVars, boxVars, seiVars, engineVars,
                 activeCount, waitQueue, job>>

\* The handler putting NO_SEI in the cache when the extraction raises.
TelemExtract_CacheThrow(r, out) ==
  /\ telem[r].pc = "extract"
  /\ telemetryCacheSet(telem[r].key, out = "data")
  /\ telem' = [telem EXCEPT
                 ![r].pc = IF out = "throw" THEN "caught" ELSE "done",
                 ![r].answer = IF out = "data" THEN "hasSei" ELSE "noSei"]
  /\ UNCHANGED <<pureVars, eventVars, slotVars, routeVars, boxVars, seiVars, engineVars,
                 activeCount, waitQueue, job>>

\* await extractTelemetry(localPath): data, null or an exception; the
\* first two are put in the cache.
TelemExtract(r, out) ==
  /\ telem[r].pc = "extract"
  /\ IF out = "throw"
     THEN /\ telem' = [telem EXCEPT ![r].pc = "caught", ![r].answer = "noSei"]
          /\ UNCHANGED <<telemetryCache, oldest>>
     ELSE /\ telemetryCacheSet(telem[r].key, out = "data")
          /\ telem' = [telem EXCEPT
                         ![r].pc = "done",
                         ![r].answer = IF out = "data" THEN "hasSei"
                                       ELSE "noSei"]
  /\ UNCHANGED <<pureVars, eventVars, slotVars, routeVars, boxVars, seiVars, engineVars,
                 activeCount, waitQueue, job>>

\* The cache route on id "telemetry": telemetryCache.clear().
TelemClear ==
  /\ telemetryCache' = <<>>
  /\ UNCHANGED <<oldest, telem>>
  /\ UNCHANGED <<pureVars, eventVars, slotVars, routeVars, boxVars, seiVars, engineVars,
                 activeCount, waitQueue, job>>

NextTelemetry ==
  \/ \E r \in 1..NumTelemRequests, k \in 1..NumTelemKeys, v \in BOOLEAN :
       TelemLookup(r, k, v)
  \/ \E r \in 1..NumTelemRequests, found \in BOOLEAN : TelemEvents(r, found)
  \/ \E r \in 1..NumTelemRequests, ok \in BOOLEAN : TelemLocalPath(r, ok)
  \/ \E r \in 1..NumTelemRequests, out \in {"data", "null", "throw"} :
       TelemExtract(r, out)
  \/ TelemClear

SpecTelemetry == InitTelemetry /\ [][NextTelemetry]_vars

\* ---- the event list: getEvents, the refresh route, auto-refresh ----
EventsFrame ==
  UNCHANGED <<pureVars, telemVars, slotVars, routeVars, boxVars, seiVars,
              engineVars, activeCount, waitQueue, job>>

InitEvents ==
  /\ EngineIdle
  /\ SlotsIdle
  /\ RouteIdle
  /\ BoxIdle
  /\ SeiIdle
  /\ PureIdle
  /\ TelemIdle
  /\ cachedEvents = 0
  /\ scanPromise = 0
  /\ scanIsRefresh = FALSE
  /\ diskCache \in {0, NumScans + 1}
  /\ scans = [i \in 1..NumScans |-> NoScan]
  /\ getter = [g \in 1..NumGetters |-> NoGetter]

\* getEvents(forceRefresh) up to its first await or its return, for caller
\* g: a result at once, a promise to wait for, or a new scan, which runs
\* to loadDiskCache or to scanTeslacamFolder in the same turn.
getEvents(g, forceRefresh) ==
  LET id == 1 + Cardinality({i \in 1..NumScans : scans[i].st # "none"}) IN
  IF cachedEvents # 0 /\ ~ forceRefresh
  THEN /\ getter' = [getter EXCEPT
                       ![g] = [pc |-> "done", on |-> 0,
                               result |-> cachedEvents, error |-> FALSE]]
       /\ UNCHANGED <<scanPromise, scanIsRefresh, scans>>
  ELSE IF scanPromise # 0
  THEN /\ getter' = [getter EXCEPT
                       ![g] = [pc |-> IF forceRefresh /\ ~ scanIsRefresh
                                      THEN "behind" ELSE "wait",
                               on |-> scanPromise, result |-> 0,
                               error |-> FALSE]]
       /\ UNCHANGED <<scanPromise, scanIsRefresh, scans>>
  ELSE /\ id <= NumScans
       /\ scanIsRefresh' = forceRefresh
       /\ scanPromise' = id
       /\ scans' = [scans EXCEPT
                      ![id] = [st |-> IF forceRefresh THEN "scanning"
                                      ELSE "disk",
                               force |-> forceRefresh, value |-> 0]]
       /\ getter' = [getter EXCEPT
                       ![g] = [pc |-> "wait", on |-> id, result |-> 0,
                               error |-> FALSE]]

\* A route calling getEvents(): the event list, the video routes.
EventsRequest(g) ==
  /\ getter[g].pc \in {"idle", "done"}
  /\ getEvents(g, FALSE)
  /\ UNCHANGED <<cachedEvents, diskCache>>
  /\ EventsFrame

\* POST /api/refresh, and a tick of the auto-refresh timer, which returns
\* when a scan is running: both start with await storage.refreshCache().
RefreshStart(g, tick) ==
  /\ getter[g].pc \in {"idle", "done"}
  /\ tick => scanPromise = 0
  /\ getter' = [getter EXCEPT ![g] = [pc |-> "refreshCache", on |-> 0,
                                      result |-> 0, error |-> FALSE]]
  /\ UNCHANGED <<cachedEvents, scanPromise, scanIsRefresh, diskCache, scans>>
  /\ EventsFrame

\* refreshCache settles: getEvents(true), or the exception leaves the
\* handler.
RefreshCacheDone(g, ok) ==
  /\ getter[g].pc = "refreshCache"
  /\ IF ok THEN getEvents(g, TRUE)
     ELSE /\ getter' = [getter EXCEPT ![g].pc = "done", ![g].error = TRUE]
          /\ UNCHANGED <<scanPromise, scanIsRefresh, scans>>
  /\ UNCHANGED <<cachedEvents, diskCache>>
  /\ EventsFrame

\* await loadDiskCache() in a scan that is no refresh: a usable file ends
\* the scan with its list.
LoadDiskCache(i) ==
  /\ scans[i].st = "disk"
  /\ IF diskCache # 0
     THEN /\ cachedEvents' = diskCache
          /\ scans' = [scans EXCEPT ![i].st = "resolved",
                                    ![i].value = diskCache]
          /\ scanPromise' = 0
          /\ scanIsRefresh' = FALSE
     ELSE /\ scans' = [scans EXCEPT ![i].st = "scanning"]
          /\ UNCHANGED <<cachedEvents, scanPromise, scanIsRefresh>>
  /\ UNCHANGED <<diskCache, getter>>
  /\ EventsFrame

\* The folder scan forgetting the finally block when it raises.
ScanFolder_NoFinally(i, ok) ==
  /\ scans[i].st = "scanning"
  /\ IF ok
     THEN /\ cachedEvents' = i
          /\ scans' = [scans EXCEPT ![i].st = "saving", ![i].value = i]
          /\ UNCHANGED <<scanPromise, scanIsRefresh>>
     ELSE /\ scans' = [scans EXCEPT ![i].st = "rejected"]
          /\ UNCHANGED <<cachedEvents, scanPromise, scanIsRefresh>>
  /\ UNCHANGED <<diskCache, getter>>
  /\ EventsFrame

\* The folder scan dropping the list in memory when it raises.
ScanFolder_DropsList(i, ok) ==
  /\ scans[i].st = "scanning"
  /\ IF ok
     THEN /\ cachedEvents' = i
          /\ scans' = [scans EXCEPT ![i].st = "saving", ![i].value = i]
          /\ UNCHANGED <<scanPromise, scanIsRefresh>>
     ELSE /\ scans' = [scans EXCEPT ![i].st = "rejected"]
          /\ cachedEvents' = 0
          /\ scanPromise' = 0
          /\ scanIsRefresh' = FALSE
  /\ UNCHANGED <<diskCache, getter>>
  /\ EventsFrame

\* await scanTeslacamFolder(storage): the new list is put in cachedEvents,
\* or the exception runs the finally block and rejects the promise.
ScanFolder(i, ok) ==
  /\ scans[i].st = "scanning"
  /\ IF ok
     THEN /\ cachedEvents' = i
          /\ scans' = [scans EXCEPT ![i].st = "saving", ![i].value = i]
          /\ UNCHANGED <<scanPromise, scanIsRefresh>>
     ELSE /\ scans' = [scans EXCEPT ![i].st = "rejected"]
          /\ scanPromise' = 0
          /\ scanIsRefresh' = FALSE
          /\ UNCHANGED cachedEvents
  /\ UNCHANGED <<diskCache, getter>>
  /\ EventsFrame

\* await saveDiskCache(cachedEvents), which catches its own exceptions,
\* then return cachedEvents and the finally block.
SaveDiskCache(i, ok) ==
  /\ scans[i].st = "saving"
  /\ diskCache' = IF ok THEN scans[i].value ELSE diskCache
  /\ scans' = [scans EXCEPT ![i].st = "resolved", ![i].value = cachedEvents]
  /\ scanPromise' = 0
  /\ scanIsRefresh' = FALSE
  /\ UNCHANGED <<cachedEvents, getter>>
  /\ EventsFrame

\* The promise a caller waits for has settled.  A refresh that waited
\* behind a scan that was none calls getEvents(true) again.
Settled(g) ==
  /\ getter[g].pc \in {"wait", "behind"}
  /\ scans[getter[g].on].st \in {"resolved", "rejected"}
  /\ IF scans[getter[g].on].st = "rejected"
     THEN /\ getter' = [getter EXCEPT ![g].pc = "done", ![g].on = 0,
                                      ![g].error = TRUE]
          /\ UNCHANGED <<scanPromise, scanIsRefresh, scans>>
     ELSE IF getter[g].pc = "wait"
     THEN /\ getter' = [getter EXCEPT
                          ![g].pc = "done", ![g].on = 0,
                          ![g].result = scans[getter[g].on].value]
          /\ UNCHANGED <<scanPromise, scanIsRefresh, scans>>
     ELSE getEvents(g, TRUE)
  /\ UNCHANGED <<cachedEvents, diskCache>>
  /\ EventsFrame

\* The cache route on "events-disk" and "events-memory": unlink of the
\* cache file, cachedEvents = null.
CacheClear(id) ==
  /\ IF id = "unlink"
     THEN diskCache' = 0 /\ UNCHANGED cachedEvents
     ELSE cachedEvents' = 0 /\ UNCHANGED diskCache
  /\ UNCHANGED <<scanPromise, scanIsRefresh, scans, getter>>
  /\ EventsFrame

NextEvents ==
  \/ \E g \in 1..NumGetters : EventsRequest(g)
  \/ \E g \in 1..NumGetters, tick \in BOOLEAN : RefreshStart(g, tick)
  \/ \E g \in 1..NumGetters, ok \in BOOLEAN : RefreshCacheDone(g, ok)
  \/ \E i \in 1..NumScans : LoadDiskCache(i)
  \/ \E i \in 1..NumScans, ok \in BOOLEAN : ScanFolder(i, ok)
  \/ \E i \in 1..NumScans, ok \in BOOLEAN : SaveDiskCache(i, ok)
  \/ \E g \in 1..NumGetters : Settled(g)
  \/ \E id \in {"unlink", "memory"} : CacheClear(id)

SpecEvents == InitEvents /\ [][NextEvents]_vars

\* ---- derived sets ----
SlotHolders ==
  {j \in Calls : job[j] \in {"mkdir", "running", "salvageRead", "salvageWrite"}}
ProcRunning == {j \in Calls : job[j] = "running"}
ProcPending == {j \in Calls : job[j] \in {"queued", "mkdir", "running"}}
Live == {j \in Calls : job[j] \notin {"none", "done"}}
Spawned(j) ==
  \/ job[j] \in {"running", "salvageRead", "salvageWrite"}
  \/ exitKind[j] \in {"ok", "nonzero", "killed"}
InProgress(c) == pc[c] \in {"stat", "rm", "wait"}
Failed(j) == job[j] = "done" /\ exitKind[j] \in {"error", "nonzero", "killed"}

\* C1: calls for one cache key that are in progress at the same time have
\* between them at most one spawned segmenter process, and they resume
\* together with the same boolean.
C1_Deduplication ==
  /\ [](\A c, d \in Calls :
          (c # d /\ key[c] = key[d] /\ InProgress(c) /\ InProgress(d))
            => ~ (Spawned(c) /\ Spawned(d)))
  /\ [][\A c, d \in Calls :
          (c # d /\ key[c] = key[d] /\ pc[c] = "wait" /\ pc[d] = "wait"
             /\ pc'[c] = "ret")
            => (pc'[d] = "ret" /\ res'[d] = res'[c])]_vars

\* C2: for every cache key at most one segmenter process is running or
\* queued to run.
C2_PerKeyMutex ==
  \A k \in Keys : Cardinality({j \in ProcPending : key[j] = k}) <= 1

\* C3: at most MAX_CONCURRENT slots are in use, and the jobs between slot
\* acquisition and release (those that may have a process) number at most
\* MAX_CONCURRENT.
C3_GlobalBound ==
  /\ activeCount <= MAX_CONCURRENT
  /\ Cardinality(SlotHolders) <= MAX_CONCURRENT
  /\ Cardinality(ProcRunning) <= activeCount

C3_Witness ==
  /\ Cardinality(ProcRunning) = MAX_CONCURRENT
  /\ waitQueue # <<>>
  /\ \E i, j \in ProcRunning : key[i] # key[j]

\* C4: a call made while the manifest of its key carries the end-of-stream
\* marker returns true and changes neither the job map, the limiter, any
\* job nor the cache directory.
C4_CacheHit ==
  [][\A c \in Calls :
       (pc[c] = "idle" /\ pc'[c] # "idle"
          /\ manifest[key'[c]].exists /\ manifest[key'[c]].ends >= 1)
         => /\ pc'[c] = "ret"
            /\ res'[c] = "true"
            /\ UNCHANGED <<activeJobs, activeCount, waitQueue, job, outcome,
                           exitKind, dir, manifest>>]_vars

C4_Witness ==
  \E c \in Calls :
    /\ pc[c] = "ret" /\ res[c] = "true" /\ awaiting[c] = 0
    /\ manifest[key[c]].by # 0
    /\ manifest[key[c]].ends = 1

C6_PartialIsSuccess ==
  [][\A j \in Calls :
       (job[j] \in {"salvageRead", "salvageWrite"} /\ job'[j] = "done"
          /\ manifest'[key[j]].exists /\ manifest'[key[j]].chunks >= 1)
         => /\ outcome'[j] = "true"
            /\ \A c \in Calls : awaiting[c] = j => res'[c] = "true"]_vars

\* C7: the salvage write leaves the manifest on disk as it was plus exactly
\* one end-of-stream marker, and the manifest a failed job left with the
\* marker keeps it, so that a later call is a cache hit.
C7_Salvage ==
  /\ [][\A j \in Calls :
          (job[j] = "salvageWrite" /\ job'[j] = "done"
             /\ manifest[key[j]].exists)
            => manifest'[key[j]] = [manifest[key[j]] EXCEPT !.ends = 1]]_vars
  /\ [][\A k \in Keys :
          (manifest[k].exists /\ manifest[k].ends >= 1
             /\ manifest[k].by # 0 /\ Failed(manifest[k].by))
            => (manifest'[k].exists /\ manifest'[k].ends >= 1)]_vars

\* C8: a call that finds a manifest in its stale check removes the cache
\* directory before its job starts; no job coexists with a manifest of a
\* previous run, and no call returns true on an unfinished manifest of a
\* previous run.
C8_CrashRecovery ==
  /\ [](\A j \in Calls :
          job[j] # "none"
            => ~ (manifest[key[j]].exists /\ manifest[key[j]].by = 0))
  /\ [][\A c \in Calls :
          /\ (pc[c] = "stat" /\ pc'[c] # "stat" /\ manifest[key[c]].exists)
               => (pc'[c] = "rm" /\ job'[c] = "none")
          /\ (pc[c] = "rm" /\ pc'[c] # "rm")
               => /\ ~ dir'[key[c]]
                  /\ ~ manifest'[key[c]].exists
                  /\ job'[c] \in {"queued", "mkdir"}
          /\ (pc[c] # "ret" /\ pc'[c] = "ret" /\ res'[c] = "true")
               => ~ (manifest[key'[c]].exists /\ manifest[key'[c]].by = 0
                       /\ manifest[key'[c]].ends = 0)]_vars

\* The directory a call found in its stale check is gone, no process was
\* ever spawned, and the job of the call that removed it has its slot.
C8_Witness ==
  \E c, d \in Calls :
    /\ c # d /\ key[c] = key[d]
    /\ pc[d] = "rm"
    /\ ~ dir[key[c]] /\ ~ manifest[key[c]].exists
    /\ job[c] = "mkdir"
    /\ \A j \in Calls : ~ Spawned(j)

\* C9: the job map never holds the promise of a job that has ended, and a
\* new call returns true from a complete manifest, goes on to its own
\* stale check and job start, or joins a job that has not ended.
C9_NoPoison ==
  /\ [](\A k \in Keys :
          activeJobs[k] # 0 => job[activeJobs[k]] \notin {"none", "done"})
  /\ [][\A c \in Calls :
          /\ (pc[c] = "idle" /\ pc'[c] # "idle")
               => \/ /\ pc'[c] = "ret" /\ res'[c] = "true"
                     /\ manifest[key'[c]].exists /\ manifest[key'[c]].ends >= 1
                  \/ pc'[c] = "stat"
                  \/ /\ awaiting'[c] # 0
                     /\ job[awaiting'[c]] \notin {"none", "done"}
          /\ (pc[c] = "stat" /\ pc'[c] # "stat")
               => (pc'[c] = "rm" \/ job'[c] \in {"queued", "mkdir"})]_vars

C9_Witness ==
  \E j, c \in Calls :
    /\ j < c /\ key[j] = key[c]
    /\ Failed(j) /\ outcome[j] = "false"
    /\ activeJobs[key[c]] = c
    /\ job[c] = "running"

\* C10: the slots in use are those of the jobs between acquisition and the
\* finally block, an ended job has no entry in the job map, and with no job
\* running or queued the limiter and the job map are empty.
C10_Release ==
  /\ Cardinality(SlotHolders) = activeCount
  /\ \A j \in Calls : job[j] = "done" => activeJobs[key[j]] # j
  /\ Live = {} => /\ activeCount = 0
                  /\ waitQueue = <<>>
                  /\ \A k \in Keys : activeJobs[k] = 0

C10_Witness ==
  /\ Live = {}
  /\ \E i, j, l \in Calls :
       exitKind[i] = "error" /\ exitKind[j] = "killed" /\ exitKind[l] = "ok"

\* C11: slots are granted in the order of the acquireSlot calls: the jobs
\* that have got a slot are the first callers, in call order, so no later
\* caller, waiting or newly arrived, gets a slot before an earlier one that
\* still waits.
C11_FIFO ==
  /\ Len(granted) <= Len(arrived)
  /\ granted = SubSeq(arrived, 1, Len(granted))
  /\ waitQueue = SubSeq(arrived, Len(granted) + 1, Len(arrived))

\* A job that waited has been granted a slot while two more wait.
C11_Witness ==
  /\ Len(waitQueue) >= 2
  /\ \E i \in 1..Len(granted) : granted[i] \in waited

\* The source of request r cannot be read: the URL it was given cannot be
\* fetched, or it has no URL and the file is not on disk.
SourceUnavailable(r) ==
  \/ streamUrl[r] = "url" /\ ~ source.reachable
  \/ streamUrl[r] = "null" /\ ~ source.onDisk

\* C12: a request whose source is unavailable is answered 404 (Video not
\* found), never 500, and no job is registered, no slot acquired or queued
\* for and no process spawned for it.
C12_FailFast ==
  \A r \in Requests :
    SourceUnavailable(r)
      => /\ response[r] \in {0, 404}
         /\ job[r] = "none"
         /\ outcome[r] = "none"
         /\ \A k \in Keys : activeJobs[k] # r

\* C14: a findBox call reads no byte outside [start, end), and a box it
\* returns has its 8- or 16-byte header and its content inside the range:
\* start <= contentStart <= contentEnd <= end.
C14_FindBoxBounds ==
  boxRes.kind # "none"
    => /\ boxRes.read <= boxArgs.end
       /\ boxRes.kind = "box"
            => /\ boxArgs.start <= boxRes.start
               /\ boxRes.start <= boxRes.end
               /\ boxRes.end <= boxArgs.end

\* C13: no exception leaves extractTelemetry, whatever the container.
C13_NeverRaises == seiPc # "thrown"

\* ---- what a file holds, read off its description ----
\* The sequence numbers of the NAL units that carry the vendor signature.
RECURSIVE ExpectedSeqs(_)
ExpectedSeqs(ns) ==
  IF ns = <<>> THEN <<>>
  ELSE (IF Head(ns).kind \in {"sei", "full"} /\ Head(ns).marks >= 1
        THEN <<Head(ns).seq>> ELSE <<>>) \o ExpectedSeqs(Tail(ns))

\* The NAL units in the mdat box of the file.
MdatNals(c) ==
  IF c.moov.layout \in {"empty", "noMdat", "extFirst"} THEN <<>> ELSE c.nals

\* One entry delta * 1000 (over the timescale) per sample of the table.
RECURSIVE Expand(_)
Expand(es) ==
  IF es = <<>> THEN <<>>
  ELSE [i \in 1..Head(es).count |-> Head(es).delta * 1000] \o Expand(Tail(es))

RECURSIVE SumSeq(_)
SumSeq(q) == IF q = <<>> THEN 0 ELSE Head(q) + SumSeq(Tail(q))

RECURSIVE SumCounts(_)
SumCounts(es) == IF es = <<>> THEN 0 ELSE Head(es).count + SumCounts(Tail(es))

Clamp(x, lo, hi) == IF x < lo THEN lo ELSE IF x > hi THEN hi ELSE x

\* The file has a video track with mdhd, a non-zero timescale and an stts
\* table with at least one sample.
HasTable(c) ==
  /\ c.moov.layout \in {"video", "audioFirst"}
  /\ c.moov.timescale > 0
  /\ SumCounts(c.moov.entries) > 0

\* The file has no valid duration list: no moov, no video track, mdhd,
\* minf, stbl or stts missing, a zero timescale, or an empty table.
NoTable(c) ==
  \/ c.moov.layout \in {"none", "audioOnly", "noMdhd", "noMinf", "noStbl", "noStts"}
  \/ /\ c.moov.layout \in {"video", "audioFirst"}
     /\ (c.moov.timescale = 0 \/ SumCounts(c.moov.entries) = 0)

SeqOf(i) == frames[i].frameSeqNo
LowestSeq == CHOOSE m \in {SeqOf(i) : i \in 1..Len(frames)} :
               \A i \in 1..Len(frames) : m <= SeqOf(i)

\* C15: frameTimesMs has as many entries as frames and never decreases
\* along the array, in whatever order the stream holds the frames.
C15_SortedTimes ==
  seiPc = "done"
    => /\ Len(frameTimesMs.num) = Len(frames)
       /\ \A i, j \in 1..Len(frames) :
            i <= j => frameTimesMs.num[i] <= frameTimesMs.num[j]

\* C16: a frame with the lower or equal sequence number never has the
\* later time, with a duration table and in the fallback.
C16_Monotone ==
  seiPc = "done"
    => \A i, j \in 1..Len(frames) :
         SeqOf(i) <= SeqOf(j) => frameTimesMs.num[i] <= frameTimesMs.num[j]

\* Frames out of order in the stream, the last one past the end of the
\* duration table.
C16_Witness ==
  /\ seiPc = "done"
  /\ durations.kind = "list"
  /\ Len(frames) = 3
  /\ SeqOf(1) > SeqOf(2)
  /\ SeqOf(3) - LowestSeq >= Len(durations.num)

\* C17: with a duration table of n samples, the time of frame i is the sum
\* of the first clamp(seq_i - minSeq, 0, n - 1) sample durations; 100
\* samples of 3000/90000 s and the frames 1000..1004 give 0, 100/3,
\* 200/3, 100 and 400/3 ms.
C17_SttsMapping ==
  /\ (seiPc = "done" /\ HasTable(clip))
       => /\ frameTimesMs.den = clip.moov.timescale
          /\ Len(frameTimesMs.num) = Len(frames)
          /\ \A i \in 1..Len(frames) :
               frameTimesMs.num[i] =
                 SumSeq(SubSeq(Expand(clip.moov.entries), 1,
                               Clamp(SeqOf(i) - LowestSeq, 0,
                                     SumCounts(clip.moov.entries) - 1)))
  /\ (seiPc = "done" /\ clip = ExampleClip)
       => /\ Len(frameTimesMs.num) = 5
          /\ \A i \in 1..5 :
               frameTimesMs.num[i] * 3 = (i - 1) * 100 * frameTimesMs.den

\* The example file has been mapped.
C17_Witness ==
  /\ seiPc = "done"
  /\ clip = ExampleClip
  /\ Len(durations.num) = 100
  /\ frameTimesMs.num[5] = 12000000

\* C18: without a valid duration list the time of frame i is
\* (seq_i - minSeq) * 1000 / 36, however far seq_i is from minSeq.
C18_Fallback ==
  (seiPc = "done" /\ NoTable(clip))
    => /\ durations.kind = "null"
       /\ frameTimesMs.den = 36
       /\ Len(frameTimesMs.num) = Len(frames)
       /\ \A i \in 1..Len(frames) :
            frameTimesMs.num[i] = (SeqOf(i) - LowestSeq) * 1000

\* A file whose track has no stts box, frames MaxSeqGap apart.
C18_Witness ==
  /\ seiPc = "done"
  /\ clip.moov.layout = "noStts"
  /\ \E i \in 1..Len(frames) : frameTimesMs.num[i] = MaxSeqGap * 1000

\* C19: for a well-formed stts table of the first video track the duration
\* list has one entry delta / timescale * 1000 per sample, as many as the
\* sample counts add up to, and the entries add up to the duration of the
\* track in mdhd.
C19_Expansion ==
  (seiPc = "done" /\ HasTable(clip))
    => /\ durations.kind = "list"
       /\ durations.den = clip.moov.timescale
       /\ Len(durations.num) = SumCounts(clip.moov.entries)
       /\ durations.num = Expand(clip.moov.entries)
       /\ SumSeq(durations.num) = TotalTicks(clip.moov.entries) * 1000

\* A table of two runs in the second track of the file, a version 1 mdhd.
C19_Witness ==
  /\ seiPc = "done"
  /\ clip.moov.layout = "audioFirst"
  /\ clip.moov.version = 1
  /\ durations.num = <<33000, 33000, 34000>>
  /\ durations.den = 1000

\* C20: the frames are those of the SEI NAL units that have one or more
\* 0x42 bytes followed by 0x69, in stream order; a NAL unit without the
\* signature yields nothing and leaves the others as they are.
C20_Signature ==
  seiPc \in {"done", "null"}
    => /\ Len(frames) = Len(ExpectedSeqs(MdatNals(clip)))
       /\ \A i \in 1..Len(frames) :
            SeqOf(i) = ExpectedSeqs(MdatNals(clip))[i]

\* Two SEI NAL units back to back, the first without the signature: one
\* frame.
C20_Witness ==
  /\ seiPc = "done"
  /\ Len(clip.nals) = 2
  /\ clip.nals[1].kind = "nosig"
  /\ clip.nals[2].kind = "sei" /\ clip.nals[2].marks = 3
  /\ Len(frames) = 1

\* The positions of the 0x03 bytes that directly follow two zero bytes.
Stuffing(d) ==
  {i \in 3..Len(d) : d[i] = 3 /\ d[i - 1] = 0 /\ d[i - 2] = 0}

\* The bytes of d from position i on, those at the positions in X left out.
RECURSIVE Without(_, _, _)
Without(d, X, i) ==
  IF i > Len(d) THEN <<>>
  ELSE (IF i \in X THEN <<>> ELSE <<d[i]>>) \o Without(d, X, i + 1)

\* C21: stripEmulationBytes returns its input without the 0x03 bytes that
\* directly follow two zero bytes, the other bytes in their order; an input
\* with no 00 00 03 comes back unchanged.
C21_Strip ==
  (call.fn = "stripEmulationBytes" /\ ret.done)
    => /\ ret.bytes = Without(call.data, Stuffing(call.data), 1)
       /\ Stuffing(call.data) = {} => ret.bytes = call.data

\* Three zero bytes, a stuffing byte and a 0x03 that follows it.
C21_Witness ==
  /\ call.fn = "stripEmulationBytes"
  /\ ret.done
  /\ call.data = <<0, 0, 0, 3, 3, 0>>
  /\ ret.bytes = <<0, 0, 0, 3, 0>>

\* The NAL units of the file that decode to a frame, in stream order, by
\* their sequence numbers.
Decodable(c) == ExpectedSeqs(MdatNals(c))

\* C22: a SEI NAL unit whose payload fails to decode yields no frame and
\* the scan goes on behind it; the frames are the decoded ones in stream
\* order, and the file counts as without telemetry (null returned, or an
\* exception that the telemetry route answers as no telemetry) only when
\* no NAL unit of it decodes.
C22_Isolated ==
  /\ seiPc = "done"
       => /\ Len(frames) = Len(Decodable(clip))
          /\ \A i \in 1..Len(frames) :
               frames[i].frameSeqNo = Decodable(clip)[i]
  /\ seiPc \in {"null", "thrown"} => Decodable(clip) = <<>>

\* C23: extractTelemetry returns null whenever no frame is decoded (no
\* mdat box, a file of no bytes, no vendor SEI NAL unit), and a result
\* that is not null has at least one frame.
C23_NullNotEmpty ==
  /\ (seiPc \in {"null", "done", "thrown"} /\ Decodable(clip) = <<>>)
       => seiPc = "null"
  /\ seiPc = "done" => Len(frames) >= 1 /\ Len(frameTimesMs.num) >= 1

\* The fields of a Telemetry Frame.
TelemetryFrameFields ==
  {"frameSeqNo", "vehicleSpeedMps", "steeringWheelAngle", "gearState",
   "autopilotState", "brakeApplied", "blinkerOnLeft", "blinkerOnRight",
   "latitudeDeg", "longitudeDeg", "headingDeg", "acceleratorPedalPosition"}

\* C24: every frame of a result carries exactly the fields of a Telemetry
\* Frame.
C24_FrameShape ==
  seiPc = "done"
    => \A i \in 1..Len(frames) : DOMAIN frames[i] = TelemetryFrameFields

\* C25: a message that lacks any subset of its fields decodes, and every
\* field of the Telemetry Frame that the message lacks is 0 or false in
\* the frame.
C25_Defaults ==
  (call.fn = "decodeSei" /\ ret.done)
    => /\ ret.frame.ok
       /\ \A no \in DOMAIN Schema :
            (Schema[no].name \in TelemetryFrameFields /\ no \notin call.fields)
              => /\ Schema[no].name \in DOMAIN ret.frame.frame
                 /\ ret.frame.frame[Schema[no].name] = Zero(Schema[no].type)

\* The keys of the cache in insertion order.
KeyOrder(c) == [i \in 1..Len(c) |-> c[i].key]

RECURSIVE SplitPath(_)
SplitPath(p) ==
  IF \A i \in 1..Len(p) : p[i] # "/" THEN <<p>>
  ELSE LET i == CHOOSE i \in 1..Len(p) :
                  p[i] = "/" /\ \A j \in 1..(i - 1) : p[j] # "/"
       IN <<SubSeq(p, 1, i - 1)>> \o SplitPath(SubSeq(p, i + 1, Len(p)))

CacheKey(rq) ==
  <<IF rq.bitrate = <<>> THEN <<"c", "o", "p", "y">> ELSE rq.bitrate,
    rq.type, rq.eventId, rq.segment, rq.camera>>

C27_ProfileInKey ==
  (call.fn = "hlsManifestPath" /\ ret.done)
    => /\ \A i \in 1..2 :
            /\ SplitPath(ret.manifest[i]) =
                 <<(<<>>), (<<"c">>), (<<"h", "l", "s">>)>>
                   \o CacheKey(call.reqs[i])
                   \o <<(<<"s", "t", "r", "e", "a", "m", ".", "m", "3", "u", "8">>)>>
            /\ ret.manifest[i] =
                 ret.dir[i] \o <<"/", "s", "t", "r", "e", "a", "m", ".",
                                 "m", "3", "u", "8">>
       /\ CacheKey(call.reqs[1]) # CacheKey(call.reqs[2])
            => /\ ret.dir[1] # ret.dir[2]
               /\ ret.manifest[1] # ret.manifest[2]

C27_Witness ==
  /\ call.fn = "hlsManifestPath"
  /\ ret.done
  /\ call.reqs[1].bitrate = <<>>
  /\ call.reqs[2] = [call.reqs[1] EXCEPT !.bitrate = <<"a", "-">>]
  /\ ret.dir[1] # ret.dir[2]

\* A name "<timestamp>-<camera>.mp4", the set of names of a listing, the
\* string order of two timestamps and the seconds between two times of day.
IsClipName(f) == Len(f.ts) = 4 /\ f.camera # "" /\ f.ext = "mp4"

Names(l) == {l[i] : i \in 1..Len(l)}

Earlier(t, u) ==
  \E k \in 1..4 : t[k] < u[k] /\ \A j \in 1..(k - 1) : t[j] = u[j]

IsTime(t) == t[2] <= 23 /\ t[3] <= 59 /\ t[4] <= 59

SecondsBetween(t, u) ==
  (((u[1] - t[1]) * 24 + (u[2] - t[2])) * 60 + (u[3] - t[3])) * 60
    + (u[4] - t[4])

\* C28: the clips under RecentClips are split into events so that every
\* clip is in exactly one event, the clips of an event are in ascending
\* timestamp order, the event id is its first clip's timestamp, and two
\* clips that follow one another in timestamp order (both times of day) are
\* in the same event exactly when they are at most 120 seconds apart.
C28_Sessions ==
  (call.fn = "scanTeslacamFolder" /\ ret.done)
    => LET ev == SelectSeq(ret.events, LAMBDA e : e.type = "RecentClips")
           T == {f.ts : f \in {g \in Names(call.entries) \cup Names(call.sub) :
                                  IsClipName(g)}}
           PlaceOf(t) == {p \in (1..Len(ev)) \X (1..Len(RecentTimes)) :
                       /\ p[2] <= Len(ev[p[1]].clips)
                       /\ ev[p[1]].clips[p[2]].timestamp = t}
           EventOf(t) == (CHOOSE p \in PlaceOf(t) : TRUE)[1]
       IN /\ \A t \in T : Cardinality(PlaceOf(t)) = 1
          /\ \A e \in 1..Len(ev) :
               /\ Len(ev[e].clips) >= 1
               /\ ev[e].id = ev[e].clips[1].timestamp
               /\ \A i \in 1..Len(ev[e].clips) :
                    /\ ev[e].clips[i].timestamp \in T
                    /\ \A j \in 1..(i - 1) :
                         Earlier(ev[e].clips[j].timestamp,
                                 ev[e].clips[i].timestamp)
          /\ \A t, u \in T :
               (/\ Earlier(t, u)
                /\ ~ \E w \in T : Earlier(t, w) /\ Earlier(w, u)
                /\ IsTime(t) /\ IsTime(u))
                 => (EventOf(t) = EventOf(u) <=> SecondsBetween(t, u) <= 120)

C28_Witness ==
  /\ call.fn = "scanTeslacamFolder"
  /\ ret.done
  /\ Len(call.sub) > 0
  /\ Len(ret.events) = 2
  /\ ret.events[1].id = <<2, 0, 3, 1>>
  /\ Len(ret.events[1].clips) = 2
  /\ ret.events[2].id = <<1, 23, 58, 0>>
  /\ Len(ret.events[2].clips) = 3
  /\ ret.events[2].clips[3].timestamp = <<2, 0, 1, 0>>

\* C29: every clip of a scan has at least one camera, no camera twice, and
\* its cameras in the order front, left_repeater, right_repeater, back,
\* left_pillar, right_pillar; an event folder without a clip file and a
\* folder whose name is not a timestamp give no event.
Canonical ==
  <<"front", "left_repeater", "right_repeater", "back", "left_pillar",
    "right_pillar">>

C29_Cameras ==
  (call.fn = "scanTeslacamFolder" /\ ret.done)
    => /\ \A e \in 1..Len(ret.events) :
            \A i \in 1..Len(ret.events[e].clips) :
              LET cs == ret.events[e].clips[i].cameras
              IN /\ Len(cs) >= 1
                 /\ \A a, b \in 1..Len(cs) :
                      a < b
                        => /\ cs[a] # cs[b]
                           /\ \A m, n \in 1..Len(Canonical) :
                                (cs[a] = Canonical[m] /\ cs[b] = Canonical[n])
                                  => m < n
       /\ \A i \in 1..Len(call.saved) :
            (\/ Len(call.saved[i].ts) # 4
             \/ ~ \E f \in Names(call.files) : IsClipName(f))
              => ~ \E e \in 1..Len(ret.events) :
                     ret.events[e].type = "SavedClips"

C29_Witness ==
  /\ call.fn = "scanTeslacamFolder"
  /\ ret.done
  /\ Len(call.files) = 3
  /\ call.files[1].camera = "back"
  /\ call.files[2].camera = "x"
  /\ call.files[3].camera = "front"
  /\ Len(ret.events) = 1
  /\ ret.events[1].clips[1].cameras = <<"x", "front", "back">>

C38_SlotAccounting ==
  /\ [](/\ activeCount >= 0
        /\ activeCount <= MAX_CONCURRENT
        /\ activeCount = Cardinality({j \in SlotJobs : job[j] = "mkdir"})
        /\ waitQueue # <<>> => activeCount = MAX_CONCURRENT)
  /\ [][(waitQueue # <<>>
           /\ \E j \in SlotJobs : job[j] = "mkdir" /\ job'[j] = "done")
          => /\ waitQueue' = Tail(waitQueue)
             /\ job'[Head(waitQueue)] = "mkdir"
             /\ activeCount' = activeCount]_vars

C38_Witness ==
  /\ activeCount = MAX_CONCURRENT
  /\ Len(waitQueue) = 1
  /\ Cardinality({j \in SlotJobs : job[j] = "done"}) = 2
  /\ Cardinality(waited) = 3

\* C37: a call that returns true does so with a manifest of its key on disk
\* at that moment.
C37_ReadyOnDisk ==
  [][\A c \in Calls :
       (pc[c] # "ret" /\ pc'[c] = "ret" /\ res'[c] = "true")
         => manifest'[key'[c]].exists]_vars

\* C33: while a job waits for a slot its manifestReady promise is pending,
\* so no call that awaits it has a result.
C33_SlotBeforeRace ==
  \A j \in Calls :
    job[j] = "queued"
      => /\ outcome[j] = "pending"
         /\ \A c \in Calls : awaiting[c] = j => pc[c] # "ret"

\* C32: the rm of the stale check runs only while no job of its key is
\* registered or between start and end, and what it deletes was written by
\* no job that has not ended.
C32_CleanupIdle ==
  [][\A c \in Calls :
       (pc[c] = "rm" /\ pc'[c] # "rm")
         => /\ activeJobs[key[c]] = 0
            /\ \A j \in Calls :
                 key[j] = key[c] => job[j] \in {"none", "done"}
            /\ manifest[key[c]].by # 0
                 => job[manifest[key[c]].by] = "done"]_vars

\* C34: the telemetry cache records only completed checks.  The cache
\* changes only when an extraction completes (the entry of that request's
\* key then holds its result) or when the cache is cleared; a request
\* answered 400 or 404, or whose extraction or getLocalPath raised, leaves
\* it as it was; a request whose key is in the cache is answered from the
\* cache at once, and one whose key is not goes on to extract.
Entry(r, hasSei) == [key |-> telem[r].key, hasSei |-> hasSei]
Stored(c, e) == \E i \in 1..Len(c) : c[i] = e
C34_OnlyCompleted ==
  [][/\ telemetryCache' # telemetryCache
          => \/ telemetryCache' = <<>>
             \/ \E r \in 1..NumTelemRequests :
                  /\ telem[r].pc = "extract"
                  /\ telem'[r].pc = "done"
                  /\ telem'[r].answer \in {"hasSei", "noSei"}
                  /\ Stored(telemetryCache',
                            Entry(r, telem'[r].answer = "hasSei"))
     /\ \A r \in 1..NumTelemRequests :
          /\ (telem[r].pc = "extract" /\ telem'[r].answer = "hasSei")
               => Stored(telemetryCache', Entry(r, TRUE))
          /\ (telem[r].pc = "extract" /\ telem'[r].pc = "done")
               => Stored(telemetryCache',
                         Entry(r, telem'[r].answer = "hasSei"))
          /\ (telem'[r] # telem[r]
                /\ (telem'[r].answer \in {"400", "404"}
                      \/ telem'[r].pc = "caught"))
               => telemetryCache' = telemetryCache
          /\ (telem[r].pc \in {"idle", "done", "caught"}
                /\ telem'[r] # telem[r]
                /\ telem'[r].key \in CacheKeys(telemetryCache))
               => telem'[r].pc = "done" /\ telem'[r].answer = "cached"
          /\ (telem[r].pc \in {"idle", "done", "caught"}
                /\ telem'[r].pc = "events")
               => telem'[r].key \notin CacheKeys(telemetryCache)]_vars

\* One request answered from the cache, and one whose extraction raised
\* while its key had never been stored.
C34_Witness ==
  \E r, q \in 1..NumTelemRequests :
    /\ telem[r].pc = "done" /\ telem[r].answer = "cached"
    /\ telem[q].pc = "caught" /\ telem[q].answer = "noSei"
    /\ telem[q].key \notin CacheKeys(telemetryCache)
    /\ oldest = 0
    /\ telemetryCache # <<>>

\* C40: the effective concurrency limit is positive.  For every value of
\* HLS_MAX_CONCURRENT, MAX_CONCURRENT is at least 1 and the first job to
\* arrive at the idle limiter holds a slot without being queued.
C40_PositiveLimit ==
  (call.fn = "acquireSlot" /\ ret.done)
    => /\ ret.MAX_CONCURRENT >= 1
       /\ ret.activeCount = 1
       /\ ret.waitQueue = 0

\* C31: the parser loops terminate on every input.  Every iteration of the
\* sibling-box walk of findBox, of the trak loop of parseFrameDurations
\* and of the NAL walk of extractSeiMessages either leaves the loop or moves
\* its position forward, and every loop is left in the end; declared sizes
\* of 0, 1 and more than the buffer are among the inputs.
C31_LoopsTerminate ==
  /\ [][\/ boxRes.kind = "none" /\ boxRes'.kind # "none"
        \/ boxArgs'.start > boxArgs.start]_vars
  /\ <>(boxRes.kind # "none")

\* The NAL walk left after a length larger than the buffer has taken the
\* cursor past the end of the file.
C31_Witness ==
  /\ boxArgs.loop = "nal"
  /\ boxRes.kind = "null"
  /\ boxArgs.start > Len(buf)

\* C35: the SEI scan stays inside mdat.  No byte the NAL walk looks at or
\* hands to the decoder lies at or after the end of the mdat content.
C35_InsideMdat == boxArgs.loop = "nal" => boxRes.read <= boxArgs.end

\* C36: event scan deduplication.  At most one scan is in flight;
\* scanPromise is null exactly when none is, also after a scan has failed,
\* and otherwise it is the promise of the scan in flight, whose kind
\* scanIsRefresh tells; a scan starts only when none is in flight; a caller
\* that arrives while a scan of the kind it needs is running starts none
\* and gets that scan's result or error.
InFlight ==
  {i \in 1..NumScans : scans[i].st \in {"disk", "scanning", "saving"}}
C36_OneScan ==
  /\ [](/\ Cardinality(InFlight) <= 1
        /\ scanPromise = 0 <=> InFlight = {}
        /\ scanPromise # 0
             => /\ InFlight = {scanPromise}
                /\ scanIsRefresh = scans[scanPromise].force
        /\ scanPromise = 0 => ~ scanIsRefresh)
  /\ [][/\ \A i \in 1..NumScans :
             (scans[i].st = "none" /\ scans'[i].st # "none")
               => InFlight = {} /\ scanPromise' = i
        /\ \A g \in 1..NumGetters :
             /\ (getter[g].pc \in {"idle", "done", "refreshCache", "behind"}
                   /\ getter'[g].pc = "wait" /\ scanPromise # 0)
                  => /\ scans' = scans
                     /\ getter'[g].on = scanPromise
                     /\ getter[g].pc \in {"refreshCache", "behind"}
                          => scanIsRefresh
             /\ (getter[g].pc = "wait" /\ getter'[g].pc = "done")
                  => /\ getter'[g].error
                          = (scans[getter[g].on].st = "rejected")
                     /\ ~ getter'[g].error
                          => getter'[g].result = scans[getter[g].on].value
       ]_vars

\* Two callers wait for the one scan in flight, a refresh, after an
\* earlier scan has failed.
C36_Witness ==
  /\ \E g, h \in 1..NumGetters :
       /\ g # h
       /\ getter[g].pc = "wait" /\ getter[g].on = scanPromise
       /\ getter[h].pc = "wait" /\ getter[h].on = scanPromise
  /\ scanPromise # 0
  /\ scanIsRefresh
  /\ \E i \in 1..NumScans : scans[i].st = "rejected"

\* C39: a failed scan keeps the old events.  The step in which a scan
\* raises leaves cachedEvents as it was; a list in memory is replaced only
\* by the list of a folder scan that has returned (or dropped by the cache
\* route); and every caller waiting for a scan that raised gets the error.
C39_KeepsOldEvents ==
  [][/\ \A i \in 1..NumScans :
          (scans[i].st # "rejected" /\ scans'[i].st = "rejected")
            => cachedEvents' = cachedEvents
     /\ (cachedEvents # 0 /\ cachedEvents' # cachedEvents)
          => \/ \E i \in 1..NumScans :
                  /\ scans[i].st = "scanning"
                  /\ scans'[i].st = "saving"
                  /\ cachedEvents' = scans'[i].value
             \/ cachedEvents' = 0 /\ scans' = scans
     /\ \A g \in 1..NumGetters :
          (getter[g].pc \in {"wait", "behind"} /\ getter'[g] # getter[g]
             /\ scans[getter[g].on].st = "rejected")
            => getter'[g].pc = "done" /\ getter'[g].error]_vars

\* A refresh scan has raised, its caller has the error, and the list an
\* earlier scan found is still in memory.
C39_Witness ==
  \E i, j \in 1..NumScans, g \in 1..NumGetters :
    /\ i < j
    /\ scans[i].st = "resolved"
    /\ cachedEvents = i
    /\ scans[j].st = "rejected" /\ scans[j].force
    /\ getter[g].pc = "done" /\ getter[g].error
    /\ \A h \in 1..NumGetters : h # g => getter[h] = NoGetter

====
